---- MODULE Spec2Model ----
(***************************************************************************)
(* Release-notes generator: the issue-tracker agent (app/Jira_agent.py)    *)
(* and the release-host agent (app/github_agent.py).                       *)
(*                                                                         *)
(* A Python str is a sequence of one-character strings.  A JSON text is    *)
(* the sequence <<"{", v, "}">> where v is the object it encodes: a        *)
(* function from member names to values.  An insertion-ordered dict whose  *)
(* keys are data (the categories) is a sequence of <<key, value>> pairs.   *)
(***************************************************************************)
EXTENDS Integers, Sequences, FiniteSets, TLC

VARIABLES
    agent,               \* the agent whose generate_release_notes_from_query runs
    pc,                  \* the stage the run is at
    llm_content,         \* response.content of the extractor's LLM call
    extracted,           \* the locals of generate_release_notes_from_query ...
    version_info_raw,
    release_date,
    issues_raw,
    release_raw,
    summarized_raw,
    release_notes_text,
    pdf_name,
    result,              \* the dict the run returned, None before
    requests,            \* the requests issued to the upstream, in order
    responses,           \* the upstream's answers to them, in order
    generated_pdfs,      \* the directory generated_pdfs: the files written
    fn,                  \* direct call of a function: the function last called
    arg,                 \* its argument
    ret,                 \* its result
    is_safe,             \* chat_endpoint: the unwrapped answer of the guard tool
    verdicts,            \* what llama_guard_check returned, call after call
    response,            \* chat_endpoint: the response to the request, None before
    parked               \* the locals of a second, concurrent run that is not stepping

(***************************************************************************)
(* Python built-ins on str                                                 *)
(***************************************************************************)
\* the character U+0060, which a TLA+ string cannot hold
BACKTICK == "backtick"

UPPERCASE == <<"A", "B", "C", "D", "E", "F", "G", "H", "I", "J", "K", "L", "M", "N", "O", "P", "Q", "R", "S", "T", "U", "V", "W", "X", "Y", "Z">>
LOWERCASE == <<"a", "b", "c", "d", "e", "f", "g", "h", "i", "j", "k", "l", "m", "n", "o", "p", "q", "r", "s", "t", "u", "v", "w", "x", "y", "z">>

\* the characters of the model in ascending code-point order
CODEPOINTS ==
    <<"\t", "\n", " ", "#", "(", ")", "*", "+", "-", ".", "/", "0", "1", "2", "3", "4", "5", "6", "7", "8", "9", ":", "<", ">">> \o UPPERCASE \o <<"[", "]", "_", BACKTICK>> \o LOWERCASE \o <<"{">>

ord(c) == CHOOSE i \in 1..Len(CODEPOINTS) : CODEPOINTS[i] = c

\* str.isspace, on the characters of the model
isspace(c) == c \in {" ", "\t", "\n"}

lower_char(c) ==
    IF \E i \in 1..26 : UPPERCASE[i] = c
    THEN LOWERCASE[CHOOSE i \in 1..26 : UPPERCASE[i] = c]
    ELSE c

upper_char(c) ==
    IF \E i \in 1..26 : LOWERCASE[i] = c
    THEN UPPERCASE[CHOOSE i \in 1..26 : LOWERCASE[i] = c]
    ELSE c

lower(s) == [i \in 1..Len(s) |-> lower_char(s[i])]

upper(s) == [i \in 1..Len(s) |-> upper_char(s[i])]

\* faulty variant of startswith: s == p, the whole text compared
startswith_equal(s, p) == Len(s) = Len(p) /\ s = p

\* s.startswith(p)
startswith(s, p) == Len(s) >= Len(p) /\ SubSeq(s, 1, Len(p)) = p

\* p in s
contains(s, p) ==
    \E i \in 0..(Len(s) - Len(p)) : SubSeq(s, i + 1, i + Len(p)) = p

\* s.strip()
strip(s) ==
    LET keep == {i \in 1..Len(s) : ~isspace(s[i])}
    IN  IF keep = {} THEN <<>>
        ELSE SubSeq(s, CHOOSE i \in keep : \A j \in keep : i <= j,
                       CHOOSE i \in keep : \A j \in keep : j <= i)

\* s.replace(a, b) for one-character a and b
replace(s, a, b) == [i \in 1..Len(s) |-> IF s[i] = a THEN b ELSE s[i]]

\* faulty variant of remove: s.replace(a, "", 1), only the first occurrence goes
remove_first(s, a) ==
    LET at == {i \in 1..Len(s) : s[i] = a}
    IN  IF at = {} THEN s
        ELSE LET i == CHOOSE k \in at : \A m \in at : k <= m
             IN  SubSeq(s, 1, i - 1) \o SubSeq(s, i + 1, Len(s))

\* s.replace(a, "") for a one-character a
remove(s, a) == SelectSeq(s, LAMBDA c : c # a)

\* s.splitlines(), the line boundary of the model being "\n"
RECURSIVE splitlines_from(_, _)
splitlines_from(s, i) ==
    IF i > Len(s) THEN <<>>
    ELSE LET brk == {j \in i..Len(s) : s[j] = "\n"}
         IN  IF brk = {} THEN <<SubSeq(s, i, Len(s))>>
             ELSE LET j == CHOOSE k \in brk : \A m \in brk : k <= m
                  IN  <<SubSeq(s, i, j - 1)>> \o splitlines_from(s, j + 1)

splitlines(s) == splitlines_from(s, 1)

\* a < b on str: lexicographic by code point, a proper prefix being smaller
RECURSIVE str_lt(_, _)
str_lt(a, b) ==
    IF b = <<>> THEN FALSE
    ELSE IF a = <<>> THEN TRUE
    ELSE IF a[1] # b[1] THEN ord(a[1]) < ord(b[1])
    ELSE str_lt(Tail(a), Tail(b))

\* str(n) for an int n >= 0
DIGITS == <<"0", "1", "2", "3", "4", "5", "6", "7", "8", "9">>

RECURSIVE str_int(_)
str_int(n) ==
    IF n < 10 THEN <<DIGITS[n + 1]>>
    ELSE str_int(n \div 10) \o <<DIGITS[(n % 10) + 1]>>

(***************************************************************************)
(* json, dict                                                              *)
(***************************************************************************)
json_dumps(v) == <<"{", v, "}">>

is_json(text) == Len(text) = 3 /\ text[1] = "{" /\ text[3] = "}"

json_loads(text) == text[2]

\* d.get(k, default) on an object with fixed member names
get(d, k, default) == IF k \in DOMAIN d THEN d[k] ELSE default

\* "Error: " + str(e)
error_text(e) == <<"E", "r", "r", "o", "r", ":", " ">> \o e

\* the message of the exception json.loads raises on a text that is not JSON
JSONDecodeError == <<"E", "x", "p", "e", "c", "t", "i", "n", "g", " ", "v", "a", "l", "u", "e">>

dict_keys(d) == [i \in 1..Len(d) |-> d[i][1]]

dict_values(d) == [i \in 1..Len(d) |-> d[i][2]]

\* faulty variant of setdefault_append: d[k] = [x], the earlier lines of the key are lost
setdefault_overwrite(d, k, x) ==
    IF \E i \in 1..Len(d) : d[i][1] = k
    THEN [i \in 1..Len(d) |-> IF d[i][1] = k THEN <<k, <<x>>>> ELSE d[i]]
    ELSE Append(d, <<k, <<x>>>>)

\* d.setdefault(k, []).append(x)
setdefault_append(d, k, x) ==
    IF \E i \in 1..Len(d) : d[i][1] = k
    THEN [i \in 1..Len(d) |->
            IF d[i][1] = k THEN <<k, Append(d[i][2], x)>> ELSE d[i]]
    ELSE Append(d, <<k, <<x>>>>)

\* faulty variant of sorted_items: dict(d.items()), the insertion order is kept
unsorted_items(d) == d

\* dict(sorted(d.items())): the keys of a dict are distinct, so the order of
\* the (key, value) tuples is the order of the keys
RECURSIVE sorted_items(_)
sorted_items(d) ==
    IF d = <<>> THEN <<>>
    ELSE LET rest == sorted_items(SubSeq(d, 1, Len(d) - 1))
             p    == d[Len(d)]
             n    == Cardinality({i \in 1..Len(rest) : ~str_lt(p[1], rest[i][1])})
         IN  SubSeq(rest, 1, n) \o <<p>> \o SubSeq(rest, n + 1, Len(rest))

\* faulty variant of total_len: len(d), the categories are counted
total_len_categories(d) == Len(d)

\* sum(len(v) for v in d.values())
RECURSIVE total_len(_)
total_len(d) ==
    IF d = <<>> THEN 0 ELSE Len(d[1][2]) + total_len(Tail(d))

(***************************************************************************)
(* Jira_agent.classify_and_summarize_issues                                *)
(***************************************************************************)
\* f"{key}: {summary}"
issue_line(issue) ==
    get(issue, "key", <<>>) \o <<":", " ">> \o get(issue, "summary", <<>>)

\* the loop over the issues: each goes under its issue type
RECURSIVE group_issues(_, _)
group_issues(categories, issues) ==
    IF issues = <<>> THEN categories
    ELSE group_issues(
            setdefault_append(categories,
                              get(issues[1], "type", <<"U", "n", "c", "a", "t", "e", "g", "o", "r", "i", "z", "e", "d">>),
                              issue_line(issues[1])),
            Tail(issues))

classify_and_summarize_issues(jira_data) ==
    IF ~is_json(jira_data) THEN error_text(JSONDecodeError)
    ELSE LET data == json_loads(jira_data)
         IN  json_dumps(
                [project    |-> get(data, "project", <<>>),
                 version    |-> get(data, "version", <<>>),
                 categories |-> sorted_items(
                                    group_issues(<<>>, get(data, "issues", <<>>)))])

(***************************************************************************)
(* github_agent.clean_github_line                                          *)
(***************************************************************************)
\* the index of the first c in s at or after i, 0 when there is none
first_at(s, c, i) ==
    LET at == {j \in i..Len(s) : s[j] = c}
    IN  IF at = {} THEN 0 ELSE CHOOSE j \in at : \A k \in at : j <= k

\* \[([^\]]+)\]\(([^)]+)\) matched at index i of s: <<end of group 1, end of
\* the match>>, <<0, 0>> when it does not match there.  Each group runs up to
\* the first closing character and holds at least one character.
link_match(s, i) ==
    IF i > Len(s) \/ s[i] # "[" THEN <<0, 0>>
    ELSE LET j == first_at(s, "]", i + 1)
         IN  IF j < i + 2 \/ j + 1 > Len(s) \/ s[j + 1] # "(" THEN <<0, 0>>
             ELSE LET k == first_at(s, ")", j + 2)
                  IN  IF k < j + 3 THEN <<0, 0>> ELSE <<j - 1, k>>

\* re.sub(r"\[([^\]]+)\]\(([^)]+)\)", r"\1", line): the matches are found left
\* to right, the search resuming after each match
RECURSIVE sub_links(_, _)
sub_links(s, i) ==
    IF i > Len(s) THEN <<>>
    ELSE LET m == link_match(s, i)
         IN  IF m[2] = 0 THEN <<s[i]>> \o sub_links(s, i + 1)
             ELSE SubSeq(s, i + 1, m[1]) \o sub_links(s, m[2] + 1)

\* re.sub(r"^[\*\-\+]\s*", "", line)
sub_bullet(s) ==
    IF s = <<>> \/ s[1] \notin {"*", "-", "+"} THEN s
    ELSE LET rest == {j \in 2..Len(s) : ~isspace(s[j])}
         IN  IF rest = {} THEN <<>>
             ELSE SubSeq(s, CHOOSE j \in rest : \A k \in rest : j <= k, Len(s))

\* re.sub(r"\s+", " ", line)
sub_spaces(s) ==
    LET kept == {i \in 1..Len(s) : ~isspace(s[i]) \/ i = 1 \/ ~isspace(s[i - 1])}
    IN  [n \in 1..Cardinality(kept) |->
            LET i == CHOOSE k \in kept : Cardinality({m \in kept : m <= k}) = n
            IN  IF isspace(s[i]) THEN " " ELSE s[i]]

clean_github_line(line) ==
    strip(sub_spaces(sub_bullet(remove(sub_links(line, 1), BACKTICK))))

(***************************************************************************)
(* github_agent.classify_and_summarize_release (the second definition of   *)
(* the module, the one in force)                                           *)
(***************************************************************************)
\* faulty variant of category_of: the feature keywords are tested before fix/bug
category_of_features_first(ln) ==
    LET low == lower(ln)
    IN  IF contains(low, <<"f", "e", "a", "t", "u", "r", "e">>) \/ contains(low, <<"a", "d", "d">>) \/ contains(low, <<"n", "e", "w">>)
        THEN <<"F", "e", "a", "t", "u", "r", "e", "s">>
        ELSE IF contains(low, <<"f", "i", "x">>) \/ contains(low, <<"b", "u", "g">>) THEN <<"B", "u", "g", " ", "F", "i", "x", "e", "s">>
        ELSE IF contains(low, <<"i", "m", "p", "r", "o", "v", "e">>) \/ contains(low, <<"u", "p", "d", "a", "t", "e">>) \/ contains(low, <<"e", "n", "h", "a", "n", "c", "e">>)
             THEN <<"I", "m", "p", "r", "o", "v", "e", "m", "e", "n", "t", "s">>
        ELSE <<"O", "t", "h", "e", "r", "s">>

\* the keyword tests on the lowered line, first match wins
category_of(ln) ==
    LET low == lower(ln)
    IN  IF contains(low, <<"f", "i", "x">>) \/ contains(low, <<"b", "u", "g">>) THEN <<"B", "u", "g", " ", "F", "i", "x", "e", "s">>
        ELSE IF contains(low, <<"f", "e", "a", "t", "u", "r", "e">>) \/ contains(low, <<"a", "d", "d">>) \/ contains(low, <<"n", "e", "w">>)
             THEN <<"F", "e", "a", "t", "u", "r", "e", "s">>
        ELSE IF contains(low, <<"i", "m", "p", "r", "o", "v", "e">>) \/ contains(low, <<"u", "p", "d", "a", "t", "e">>) \/ contains(low, <<"e", "n", "h", "a", "n", "c", "e">>)
             THEN <<"I", "m", "p", "r", "o", "v", "e", "m", "e", "n", "t", "s">>
        ELSE <<"O", "t", "h", "e", "r", "s">>

\* the raw lines stripped, cleaned, and kept when not empty
RECURSIVE clean_lines(_)
clean_lines(raw_lines) ==
    IF raw_lines = <<>> THEN <<>>
    ELSE LET ln == strip(raw_lines[1])
         IN  IF ln = <<>> THEN clean_lines(Tail(raw_lines))
             ELSE LET cl == clean_github_line(ln)
                  IN  IF cl = <<>> THEN clean_lines(Tail(raw_lines))
                      ELSE <<cl>> \o clean_lines(Tail(raw_lines))

\* the categories dict as the code creates it
empty_categories ==
    << <<<<"F", "e", "a", "t", "u", "r", "e", "s">>, <<>>>>, <<<<"B", "u", "g", " ", "F", "i", "x", "e", "s">>, <<>>>>,
       <<<<"I", "m", "p", "r", "o", "v", "e", "m", "e", "n", "t", "s">>, <<>>>>, <<<<"O", "t", "h", "e", "r", "s">>, <<>>>> >>

\* categories[...].append(ln) for every line
RECURSIVE group_lines(_, _)
group_lines(categories, lines) ==
    IF lines = <<>> THEN categories
    ELSE group_lines(setdefault_append(categories, category_of(lines[1]), lines[1]),
                     Tail(lines))

\* faulty variant of drop_empty: the empty categories stay
keep_empty(categories) == categories

\* {k: v for k, v in categories.items() if v}
drop_empty(categories) == SelectSeq(categories, LAMBDA p : p[2] # <<>>)

classify_and_summarize_release(release_json) ==
    IF ~is_json(release_json) THEN error_text(JSONDecodeError)
    ELSE LET data == json_loads(release_json)
             body == get(data, "body", <<>>)
             lines == clean_lines(splitlines(body))
         IN  json_dumps(
                [owner         |-> get(data, "owner", <<>>),
                 repo          |-> get(data, "repo", <<>>),
                 version       |-> get(data, "version", <<>>),
                 tag_name      |-> get(data, "tag_name", <<>>),
                 published_at  |-> get(data, "published_at", <<"U", "n", "k", "n", "o", "w", "n">>),
                 release_title |-> get(data, "name", <<>>),
                 categories    |-> drop_empty(group_lines(empty_categories, lines))])

(***************************************************************************)
(* The intent extractors, given the content of the LLM's response          *)
(***************************************************************************)
None == [py_none |-> TRUE]

\* faulty variant of llm_extract_project_and_version: data.get(field, ""), a missing
\* field is taken as empty
llm_extract_project_and_version_lenient(content) ==
    IF ~is_json(content) THEN None
    ELSE LET data == json_loads(content)
         IN  [project |-> upper(strip(get(data, "project", <<>>))),
              version |-> strip(get(data, "version", <<>>))]

llm_extract_project_and_version(content) ==
    IF ~is_json(content) THEN None
    ELSE LET data == json_loads(content)
         IN  IF "project" \in DOMAIN data /\ "version" \in DOMAIN data
             THEN [project |-> upper(strip(data.project)),
                   version |-> strip(data.version)]
             ELSE None

llm_extract_repo_and_version(content) ==
    IF ~is_json(content) THEN None
    ELSE LET data == json_loads(content)
         IN  IF "owner" \in DOMAIN data /\ "repo" \in DOMAIN data /\ "version" \in DOMAIN data
             THEN [owner   |-> strip(data.owner),
                   repo    |-> strip(data.repo),
                   version |-> strip(data.version)]
             ELSE None

(***************************************************************************)
(* The fetches, given the upstream's answer r to requests.get:             *)
(* r.raised is the message of the exception requests.get raised (empty     *)
(* when it returned), r.status_code the status, r.is_json whether the body *)
(* parses, r.json the parsed body.                                         *)
(***************************************************************************)
\* r.raise_for_status(): the message of the HTTPError, empty when none is raised
raise_for_status(status_code) ==
    IF 400 <= status_code /\ status_code < 500 THEN str_int(status_code) \o <<" ", "C", "l", "i", "e", "n", "t", " ", "E", "r", "r", "o", "r">>
    ELSE IF 500 <= status_code /\ status_code < 600 THEN str_int(status_code) \o <<" ", "S", "e", "r", "v", "e", "r", " ", "E", "r", "r", "o", "r">>
    ELSE <<>>

\* faulty variant of fetch_exception: r.raise_for_status() is not called
fetch_exception_no_status(r) ==
    IF r.raised # <<>> THEN r.raised
    ELSE IF ~r.is_json THEN JSONDecodeError
    ELSE <<>>

\* the message of the exception the try block of a fetch ends with, empty when
\* it runs to its return
fetch_exception(r) ==
    IF r.raised # <<>> THEN r.raised
    ELSE IF raise_for_status(r.status_code) # <<>> THEN raise_for_status(r.status_code)
    ELSE IF ~r.is_json THEN JSONDecodeError
    ELSE <<>>

\* faulty variant of fetch_jira_version_info: a version that is not listed is an error
fetch_jira_version_info_strict(project, version, r) ==
    IF fetch_exception(r) # <<>> THEN error_text(fetch_exception(r))
    ELSE LET versions == r.json
             named == {i \in 1..Len(versions) :
                          "name" \in DOMAIN versions[i] /\ versions[i].name = version}
         IN  IF named = {} THEN error_text(<<"v", "e", "r", "s", "i", "o", "n", " ", "n", "o", "t", " ", "f", "o", "u", "n", "d">>)
             ELSE json_dumps(
                    [release_date |->
                        get(versions[CHOOSE i \in named : \A j \in named : i <= j],
                            "releaseDate", <<"U", "n", "k", "n", "o", "w", "n">>),
                     version |-> version,
                     project |-> project])

\* the first version of the list whose name is the requested one decides
fetch_jira_version_info(project, version, r) ==
    IF fetch_exception(r) # <<>> THEN error_text(fetch_exception(r))
    ELSE LET versions == r.json
             named == {i \in 1..Len(versions) :
                          "name" \in DOMAIN versions[i] /\ versions[i].name = version}
         IN  json_dumps(
                [release_date |->
                    IF named = {} THEN <<"U", "n", "k", "n", "o", "w", "n">>
                    ELSE get(versions[CHOOSE i \in named : \A j \in named : i <= j],
                             "releaseDate", <<"U", "n", "k", "n", "o", "w", "n">>),
                 version |-> version,
                 project |-> project])

\* {} of Python, an object without members
EmptyObject == <<>>

normalize_issue(issue) ==
    [key     |-> get(issue, "key", <<>>),
     summary |-> get(get(issue, "fields", EmptyObject), "summary", <<>>),
     type    |-> get(get(get(issue, "fields", EmptyObject), "issuetype", EmptyObject),
                     "name", <<>>)]

fetch_jira_issues(project, version, r) ==
    IF fetch_exception(r) # <<>> THEN error_text(fetch_exception(r))
    ELSE LET found == get(r.json, "issues", <<>>)
         IN  json_dumps(
                [project |-> project,
                 version |-> version,
                 issues  |-> [i \in 1..Len(found) |-> normalize_issue(found[i])]])

\* faulty variant of needs_fallback: the fallback is tried on every 404
needs_fallback_any_version(version, r) ==
    r.raised = <<>> /\ r.status_code = 404

\* the fallback of fetch_github_release is tried on a 404 for a version
\* that does not start with "v"
needs_fallback(version, r) ==
    r.raised = <<>> /\ r.status_code = 404 /\ ~startswith(version, <<"v">>)

\* fetch_github_release from its last answer r on
github_release_text(owner, repo, version, r) ==
    IF fetch_exception(r) # <<>> THEN error_text(fetch_exception(r))
    ELSE json_dumps(
            [owner        |-> owner,
             repo         |-> repo,
             version      |-> version,
             tag_name     |-> get(r.json, "tag_name", version),
             name         |-> get(r.json, "name", <<>>),
             published_at |-> get(r.json, "published_at", <<"U", "n", "k", "n", "o", "w", "n">>),
             body         |-> get(r.json, "body", <<>>)])

(***************************************************************************)
(* format_release_notes                                                    *)
(***************************************************************************)
\* "- **{category}**: {len(items)}\n" for every category
RECURSIVE summary_counts(_)
summary_counts(categories) ==
    IF categories = <<>> THEN <<>>
    ELSE <<"-", " ", "*", "*">> \o categories[1][1] \o <<"*", "*", ":", " ">> \o str_int(Len(categories[1][2])) \o <<"\n">>
         \o summary_counts(Tail(categories))

\* "- {item}\n" for every item
RECURSIVE item_lines(_)
item_lines(items) ==
    IF items = <<>> THEN <<>>
    ELSE <<"-", " ">> \o items[1] \o <<"\n">> \o item_lines(Tail(items))

\* "## {category}\n", the items and "\n" for every category that has items
RECURSIVE category_sections(_)
category_sections(categories) ==
    IF categories = <<>> THEN <<>>
    ELSE (IF categories[1][2] # <<>>
          THEN <<"#", "#", " ">> \o categories[1][1] \o <<"\n">> \o item_lines(categories[1][2]) \o <<"\n">>
          ELSE <<>>)
         \o category_sections(Tail(categories))

\* the text after the level-1 heading, total_label being "Total Issues" or "Total Items"
notes_body(date, categories, total_label) ==
    <<"#", "#", " ", "R", "e", "l", "e", "a", "s", "e", " ", "D", "a", "t", "e", "\n">> \o date \o <<"\n", "\n">>
    \o <<"#", "#", " ", "S", "u", "m", "m", "a", "r", "y", "\n">>
    \o <<"-", " ", "*", "*">> \o total_label \o <<"*", "*", ":", " ">> \o str_int(total_len(categories)) \o <<"\n">>
    \o summary_counts(categories)
    \o <<"\n">>
    \o category_sections(categories)

jira_format_release_notes(project, version, date, summarized_data) ==
    IF ~is_json(summarized_data) THEN error_text(JSONDecodeError)
    ELSE LET data == json_loads(summarized_data)
         IN  <<"#", " ">> \o project \o <<" ", "R", "e", "l", "e", "a", "s", "e", " ">> \o version \o <<"\n", "\n">>
             \o notes_body(date, get(data, "categories", <<>>), <<"T", "o", "t", "a", "l", " ", "I", "s", "s", "u", "e", "s">>)

github_format_release_notes(owner, repo, version, summarized_data) ==
    IF ~is_json(summarized_data) THEN error_text(JSONDecodeError)
    ELSE LET data == json_loads(summarized_data)
         IN  <<"#", " ">> \o upper(repo) \o <<" ", "R", "e", "l", "e", "a", "s", "e", " ">> \o get(data, "tag_name", version) \o <<"\n", "\n">>
             \o notes_body(get(data, "published_at", <<"U", "n", "k", "n", "o", "w", "n">>),
                           get(data, "categories", <<>>), <<"T", "o", "t", "a", "l", " ", "I", "t", "e", "m", "s">>)

(***************************************************************************)
(* save_to_pdf: the story, one block per line                              *)
(***************************************************************************)
\* the index of the first "**" of s at or after i, 0 when there is none
first_stars(s, i) ==
    LET at == {j \in i..(Len(s) - 1) : s[j] = "*" /\ s[j + 1] = "*"}
    IN  IF at = {} THEN 0 ELSE CHOOSE j \in at : \A k \in at : j <= k

\* re.sub(r"\*\*(.*?)\*\*", r'<font color="blue">\1</font>', line)
RECURSIVE sub_emphasis(_, _)
sub_emphasis(s, i) ==
    LET open == first_stars(s, i)
        close == IF open = 0 THEN 0 ELSE first_stars(s, open + 2)
    IN  IF close = 0 THEN SubSeq(s, i, Len(s))
        ELSE SubSeq(s, i, open - 1)
             \o <<"<", "f", "o", "n", "t", " ", "c", "o", "l", "o", "r", "=", "\"", "b", "l", "u", "e", "\"", ">">> \o SubSeq(s, open + 2, close - 1) \o <<"<", "/", "f", "o", "n", "t", ">">>
             \o sub_emphasis(s, close + 2)

Spacer == [style |-> "Spacer", text |-> <<>>]

Paragraph(text, style) == [style |-> style, text |-> text]

\* faulty variant of story_block: the line is looked at as it is, without
\* line.strip()
story_block_unstripped(raw_line) ==
    LET line == raw_line
    IN  IF strip(line) = <<>> THEN Spacer
        ELSE IF startswith(line, <<"#", " ">>) THEN Paragraph(SubSeq(line, 3, Len(line)), "Header1")
        ELSE IF startswith(line, <<"#", "#", " ">>) THEN Paragraph(SubSeq(line, 4, Len(line)), "Header2")
        ELSE IF startswith(line, <<"-", " ">>)
             THEN LET marked == sub_emphasis(line, 1)
                  IN  Paragraph(<<"-", " ">> \o SubSeq(marked, 3, Len(marked)), "ListItem")
        ELSE Paragraph(sub_emphasis(line, 1), "NormalText")

story_block(raw_line) ==
    LET line == strip(raw_line)
    IN  IF line = <<>> THEN Spacer
        ELSE IF startswith(line, <<"#", " ">>) THEN Paragraph(SubSeq(line, 3, Len(line)), "Header1")
        ELSE IF startswith(line, <<"#", "#", " ">>) THEN Paragraph(SubSeq(line, 4, Len(line)), "Header2")
        ELSE IF startswith(line, <<"-", " ">>)
             THEN LET marked == sub_emphasis(line, 1)
                  IN  Paragraph(<<"-", " ">> \o SubSeq(marked, 3, Len(marked)), "ListItem")
        ELSE Paragraph(sub_emphasis(line, 1), "NormalText")

\* the story doc.build lays out
save_to_pdf(text) ==
    LET lines == splitlines(text)
    IN  [i \in 1..Len(lines) |-> story_block(lines[i])]

\* faulty variant of jira_pdf_name: the release date the upstream gave is part
\* of the name
jira_pdf_name_dated(project, version) ==
    project \o <<"_", "v">> \o version \o <<"_">> \o release_date \o <<"_", "r", "e", "l", "e", "a", "s", "e", "_", "n", "o", "t", "e", "s", ".", "p", "d", "f">>

\* f"{project}_v{version}_release_notes.pdf"
jira_pdf_name(project, version) ==
    project \o <<"_", "v">> \o version \o <<"_", "r", "e", "l", "e", "a", "s", "e", "_", "n", "o", "t", "e", "s", ".", "p", "d", "f">>

\* faulty variant of github_pdf_name: the name is built from the tag_name of the fetched
\* release
github_pdf_name_from_tag(owner, repo, version) ==
    owner \o <<"_">> \o replace(repo, "/", "_") \o <<"_", "v">> \o json_loads(release_raw).tag_name
    \o <<"_", "r", "e", "l", "e", "a", "s", "e", "_", "n", "o", "t", "e", "s", ".", "p", "d", "f">>

\* f"{owner}_{safe_repo}_v{version}_release_notes.pdf", safe_repo = repo.replace("/", "_")
github_pdf_name(owner, repo, version) ==
    owner \o <<"_">> \o replace(repo, "/", "_") \o <<"_", "v">> \o version \o <<"_", "r", "e", "l", "e", "a", "s", "e", "_", "n", "o", "t", "e", "s", ".", "p", "d", "f">>

(***************************************************************************)
(* Direct calls of the classifiers and of the line cleaning                *)
(***************************************************************************)
MaxIssues == 2
MaxLines == 2
MaxPieces == 3

BoundedSeq(S, n) == UNION {[1..m -> S] : m \in 0..n}

RECURSIVE join_lines(_)
join_lines(lines) ==
    IF lines = <<>> THEN <<>>
    ELSE IF Len(lines) = 1 THEN lines[1]
    ELSE lines[1] \o <<"\n">> \o join_lines(Tail(lines))

RECURSIVE concat(_)
concat(pieces) ==
    IF pieces = <<>> THEN <<>> ELSE pieces[1] \o concat(Tail(pieces))

IssueTypes == {<<"B", "u", "g">>, <<"T", "a", "s", "k">>, <<"T", "e", "s", "t">>, <<"b", "u", "g">>, <<>>}

\* issues as fetch_jira_issues normalizes them
NormalizedIssues ==
    {[key |-> k, summary |-> <<"f", "i", "x">>, type |-> t] : k \in {<<"Z", "-", "1">>, <<"Z", "-", "2">>}, t \in IssueTypes}

\* lines of a release body, as written by the release's author
BodyLines ==
    {<<"-", " ", "F", "i", "x", " ", "t", "h", "e", " ", "n", "e", "w", " ", "f", "e", "a", "t", "u", "r", "e">>, <<"*", " ", "A", "d", "d", " ", "[", "d", "o", "c", "s", "]", "(", "u", ")">>, <<"+", " ", "I", "m", "p", "r", "o", "v", "e", "d", " ", BACKTICK, "c", "a", "c", "h", "e", BACKTICK>>,
     <<"U", "p", "d", "a", "t", "e", "d", " ", "a", "n", "d", " ", "a", "d", "d", "e", "d", " ", "t", "e", "s", "t", "s">>, <<"m", "i", "s", "c">>, <<"-">>, <<" ", " ">>,
     <<"D", "e", "b", "u", "g", "g", "i", "n", "g", " ", "e", "n", "h", "a", "n", "c", "e", "m", "e", "n", "t", "s">>, <<"N", "E", "W", " ", "A", "P", "I">>}

\* parts of a line, for the line cleaning
Pieces == {<<"-">>, <<"*">>, <<"+">>, <<" ">>, <<"\t">>, <<"a">>, <<BACKTICK>>, <<"[", "a", "]">>, <<"(", "b", ")">>}

IssuesInputs ==
    {json_dumps([project |-> <<"Z", "K">>, version |-> <<"1">>, issues |-> is]) :
        is \in BoundedSeq(NormalizedIssues, MaxIssues)}

ReleaseInputs ==
    {json_dumps([owner |-> <<"a">>, repo |-> <<"z">>, version |-> <<"1">>, tag_name |-> <<"v", "1">>,
                 name |-> <<"R">>, published_at |-> <<"2", "0", "2", "4">>, body |-> join_lines(ls)]) :
        ls \in BoundedSeq(BodyLines, MaxLines)}

LineInputs == {concat(ps) : ps \in BoundedSeq(Pieces, MaxPieces)}


(***************************************************************************)
(* The upstream's answers and the LLM's                                    *)
(***************************************************************************)
MaxVersions == 2

Projects == {<<"Z", "K">>, <<" ", "z", "k">>}

Owners == {<<"a">>}

Repos == {<<"z">>, <<"a", "/", "z">>}

VersionStrings == {<<"1">>, <<"v", "1">>}

\* response.content of the issue-tracker extractor: no JSON, or an object
\* with both fields or with one
JiraContents ==
    {<<"H", "i">>}
    \cup {json_dumps([project |-> p, version |-> v]) : p \in Projects, v \in VersionStrings}
    \cup {json_dumps([project |-> p]) : p \in Projects}
    \cup {json_dumps([version |-> v]) : v \in VersionStrings}

GithubContents ==
    {<<"H", "i">>}
    \cup {json_dumps([owner |-> o, repo |-> p, version |-> v]) :
            o \in Owners, p \in Repos, v \in VersionStrings}
    \cup {json_dumps([owner |-> o, repo |-> p]) : o \in Owners, p \in Repos}

\* requests.get raised, or answered 500 (with a JSON body or not), or 200 with
\* a body that is no JSON
Failures(no_json) ==
    {[raised |-> <<"t", "i", "m", "e", "o", "u", "t">>, status_code |-> 0, is_json |-> FALSE, json |-> no_json],
     [raised |-> <<>>, status_code |-> 500, is_json |-> FALSE, json |-> no_json],
     [raised |-> <<>>, status_code |-> 500, is_json |-> TRUE, json |-> no_json],
     [raised |-> <<>>, status_code |-> 200, is_json |-> FALSE, json |-> no_json]}

Ok(payload) == [raised |-> <<>>, status_code |-> 200, is_json |-> TRUE, json |-> payload]

VersionObjects ==
    {[name |-> <<"1">>, releaseDate |-> <<"2", "0", "2", "4", "-", "0", "1", "-", "0", "2">>], [name |-> <<"1">>],
     [name |-> <<"2">>, releaseDate |-> <<"2", "0", "2", "5", "-", "0", "3", "-", "0", "4">>]}

VersionsResponses ==
    Failures(<<>>) \cup {Ok(vs) : vs \in BoundedSeq(VersionObjects, MaxVersions)}

\* issues of the search payload: complete ones, and one without key and issue type
PayloadIssues ==
    {[key |-> <<"Z", "-", "1">>, fields |-> [summary |-> <<"F", "i", "x", " ", "i", "t">>, issuetype |-> [name |-> <<"B", "u", "g">>]]],
     [key |-> <<"Z", "-", "2">>, fields |-> [summary |-> <<"A", "d", "d", " ", "*", "*", "x", "*", "*">>, issuetype |-> [name |-> <<"T", "a", "s", "k">>]]],
     [fields |-> [summary |-> <<"#", " ", "x">>]]}

SearchResponses ==
    Failures(EmptyObject)
    \cup {Ok([issues |-> is]) : is \in BoundedSeq(PayloadIssues, MaxIssues)}
    \cup {Ok([warningMessages |-> <<>>])}

ReleaseBodies == {<<>>, <<"m", "i", "s", "c">>, <<"-", " ", "F", "i", "x", " ", "b", "u", "g", "\n", "\n", "*", " ", "A", "d", "d", " ", "[", "d", "o", "c", "s", "]", "(", "u", ")">>}

\* the release-by-tag endpoint: failures, 404, or the release of that tag, with
\* or without the optional members
ReleaseResponses(tag) ==
    Failures(EmptyObject)
    \cup {[raised |-> <<>>, status_code |-> 404, is_json |-> TRUE,
           json |-> [message |-> <<"N", "o", "t", " ", "F", "o", "u", "n", "d">>]]}
    \cup {Ok([tag_name |-> tag, name |-> <<"R">>, published_at |-> <<"2", "0", "2", "4", "-", "0", "1", "-", "0", "2">>, body |-> b]) :
            b \in ReleaseBodies}
    \cup {Ok([name |-> <<"R">>, body |-> b]) : b \in ReleaseBodies}

(***************************************************************************)
(* generate_release_notes_from_query, stage by stage                       *)
(***************************************************************************)
run_vars ==
    <<agent, pc, llm_content, extracted, version_info_raw, release_date, issues_raw, release_raw,
      summarized_raw, release_notes_text, pdf_name, result, requests, responses,
      generated_pdfs>>

call_vars == <<fn, arg, ret>>

chat_vars == <<is_safe, verdicts, response>>

\* faulty variant of write_file: what is written is added to what the file of
\* that name holds
write_file_appending(dir, name, story) ==
    {f \in dir : f.name # name}
    \cup {[name |-> name,
            story |-> (IF \E f \in dir : f.name = name
                       THEN (CHOOSE f \in dir : f.name = name).story ELSE <<>>) \o story]}

\* the file name is written, replacing the file of that name
write_file(dir, name, story) ==
    {f \in dir : f.name # name} \cup {[name |-> name, story |-> story]}

\* ---- Jira_agent.generate_release_notes_from_query ----
JiraExtract ==
    /\ agent = "jira" /\ pc = "extract"
    /\ \E content \in JiraContents :
        /\ llm_content' = content
        /\ extracted' = llm_extract_project_and_version(content)
        /\ IF extracted' = None
           THEN /\ result' = [reply |-> <<"P", "l", "e", "a", "s", "e", " ", "p", "r", "o", "v", "i", "d", "e", " ", "p", "r", "o", "j", "e", "c", "t", " ", "a", "n", "d", " ", "v", "e", "r", "s", "i", "o", "n", ".", " ", "E", "x", "a", "m", "p", "l", "e", ":", " ", "Z", "O", "O", "K", "E", "E", "P", "E", "R", " ", "3", ".", "9", ".", "0">>]
                /\ pc' = "returned"
           ELSE /\ pc' = "fetch_version"
                /\ UNCHANGED result
    /\ UNCHANGED <<agent, version_info_raw, release_date, issues_raw, release_raw,
                   summarized_raw, release_notes_text, pdf_name, requests, responses,
                   generated_pdfs, call_vars, chat_vars, parked>>

\* faulty variant of JiraFetchVersionInfo: a failed fetch of the version info
\* does not end the run, the date is taken as unknown
JiraFetchVersionInfoGoesOn ==
    /\ agent = "jira" /\ pc = "fetch_version"
    /\ \E r \in VersionsResponses :
        /\ responses' = Append(responses, r)
        /\ version_info_raw' = fetch_jira_version_info(extracted.project, extracted.version, r)
    /\ requests' = Append(requests, [endpoint |-> "project/versions",
                                     project |-> extracted.project])
    /\ release_date' = IF is_json(version_info_raw')
                       THEN get(json_loads(version_info_raw'), "release_date", <<"U", "n", "k", "n", "o", "w", "n">>)
                       ELSE <<"U", "n", "k", "n", "o", "w", "n">>
    /\ pc' = "fetch_issues"
    /\ UNCHANGED <<agent, llm_content, extracted, issues_raw, release_raw,
                   summarized_raw, release_notes_text, pdf_name, result, generated_pdfs,
                   call_vars, chat_vars, parked>>

JiraFetchVersionInfo ==
    /\ agent = "jira" /\ pc = "fetch_version"
    /\ \E r \in VersionsResponses :
        /\ responses' = Append(responses, r)
        /\ version_info_raw' = fetch_jira_version_info(extracted.project, extracted.version, r)
    /\ requests' = Append(requests, [endpoint |-> "project/versions",
                                     project |-> extracted.project])
    /\ IF startswith(version_info_raw', <<"E", "r", "r", "o", "r", ":">>)
       THEN /\ result' = [reply |-> <<"E", "r", "r", "o", "r", " ", "f", "e", "t", "c", "h", "i", "n", "g", " ", "v", "e", "r", "s", "i", "o", "n", " ", "i", "n", "f", "o", ":", " ">> \o version_info_raw']
            /\ pc' = "returned"
            /\ UNCHANGED release_date
       ELSE IF ~is_json(version_info_raw')
       THEN \* json.loads(version_info_raw) raises, outside any try
            /\ pc' = "raised"
            /\ UNCHANGED <<release_date, result>>
       ELSE /\ release_date' = get(json_loads(version_info_raw'), "release_date", <<"U", "n", "k", "n", "o", "w", "n">>)
            /\ pc' = "fetch_issues"
            /\ UNCHANGED result
    /\ UNCHANGED <<agent, llm_content, extracted, issues_raw, release_raw,
                   summarized_raw, release_notes_text, pdf_name, generated_pdfs,
                   call_vars, chat_vars, parked>>

JiraFetchIssues ==
    /\ agent = "jira" /\ pc = "fetch_issues"
    /\ \E r \in SearchResponses :
        /\ responses' = Append(responses, r)
        /\ issues_raw' = fetch_jira_issues(extracted.project, extracted.version, r)
    /\ requests' = Append(requests,
            [endpoint |-> "search",
             jql |-> <<"p", "r", "o", "j", "e", "c", "t", " ", "=", " ">> \o extracted.project
                     \o <<" ", "A", "N", "D", " ", "f", "i", "x", "V", "e", "r", "s", "i", "o", "n", " ", "=", " ">> \o extracted.version,
             fields |-> <<"s", "u", "m", "m", "a", "r", "y", ",", "i", "s", "s", "u", "e", "t", "y", "p", "e">>, startAt |-> 0, maxResults |-> 50])
    /\ IF startswith(issues_raw', <<"E", "r", "r", "o", "r", ":">>)
       THEN /\ result' = [reply |-> <<"E", "r", "r", "o", "r", " ", "f", "e", "t", "c", "h", "i", "n", "g", " ", "i", "s", "s", "u", "e", "s", ":", " ">> \o issues_raw']
            /\ pc' = "returned"
       ELSE /\ pc' = "classify"
            /\ UNCHANGED result
    /\ UNCHANGED <<agent, llm_content, extracted, version_info_raw, release_date,
                   release_raw, summarized_raw, release_notes_text, pdf_name,
                   generated_pdfs, call_vars, chat_vars, parked>>

JiraClassify ==
    /\ agent = "jira" /\ pc = "classify"
    /\ summarized_raw' = classify_and_summarize_issues(issues_raw)
    /\ IF startswith(summarized_raw', <<"E", "r", "r", "o", "r", ":">>)
       THEN /\ result' = [reply |-> <<"E", "r", "r", "o", "r", " ", "c", "l", "a", "s", "s", "i", "f", "y", "i", "n", "g", " ", "i", "s", "s", "u", "e", "s", ":", " ">> \o summarized_raw']
            /\ pc' = "returned"
       ELSE /\ pc' = "format"
            /\ UNCHANGED result
    /\ UNCHANGED <<agent, llm_content, extracted, version_info_raw, release_date,
                   issues_raw, release_raw, release_notes_text, pdf_name, requests,
                   responses, generated_pdfs, call_vars, chat_vars, parked>>

JiraFormat ==
    /\ agent = "jira" /\ pc = "format"
    /\ release_notes_text' = jira_format_release_notes(
            extracted.project, extracted.version, release_date, summarized_raw)
    /\ IF startswith(release_notes_text', <<"E", "r", "r", "o", "r", ":">>)
       THEN /\ result' = [reply |-> <<"E", "r", "r", "o", "r", " ", "f", "o", "r", "m", "a", "t", "t", "i", "n", "g", " ", "r", "e", "l", "e", "a", "s", "e", " ", "n", "o", "t", "e", "s", ":", " ">> \o release_notes_text']
            /\ pc' = "returned"
       ELSE /\ pc' = "save"
            /\ UNCHANGED result
    /\ UNCHANGED <<agent, llm_content, extracted, version_info_raw, release_date,
                   issues_raw, release_raw, summarized_raw, pdf_name, requests,
                   responses, generated_pdfs, call_vars, chat_vars, parked>>

\* save_to_pdf returns: the file is written and the run returns its name
JiraSave ==
    /\ agent = "jira" /\ pc = "save"
    /\ pdf_name' = jira_pdf_name(extracted.project, extracted.version)
    /\ generated_pdfs' = write_file(generated_pdfs, pdf_name', save_to_pdf(release_notes_text))
    /\ result' = [reply |-> <<"R", "e", "l", "e", "a", "s", "e", " ", "n", "o", "t", "e", "s", " ", "g", "e", "n", "e", "r", "a", "t", "e", "d", ".">>, project |-> extracted.project,
                  version |-> extracted.version, pdf_name |-> pdf_name']
    /\ pc' = "returned"
    /\ UNCHANGED <<agent, llm_content, extracted, version_info_raw, release_date,
                   issues_raw, release_raw, summarized_raw, release_notes_text,
                   requests, responses, call_vars, chat_vars, parked>>

\* ---- github_agent.generate_release_notes_from_query ----
GithubExtract ==
    /\ agent = "github" /\ pc = "extract"
    /\ \E content \in GithubContents :
        /\ llm_content' = content
        /\ extracted' = llm_extract_repo_and_version(content)
        /\ IF extracted' = None
           THEN /\ result' = [reply |-> <<"P", "l", "e", "a", "s", "e", " ", "p", "r", "o", "v", "i", "d", "e", " ", "o", "w", "n", "e", "r", "/", "r", "e", "p", "o", " ", "a", "n", "d", " ", "v", "e", "r", "s", "i", "o", "n", ".", " ", "E", "x", "a", "m", "p", "l", "e", ":", " ", "a", "p", "a", "c", "h", "e", "/", "z", "o", "o", "k", "e", "e", "p", "e", "r", " ", "3", ".", "9", ".", "0">>]
                /\ pc' = "returned"
           ELSE /\ pc' = "fetch_release"
                /\ UNCHANGED result
    /\ UNCHANGED <<agent, version_info_raw, release_date, issues_raw, release_raw,
                   summarized_raw, release_notes_text, pdf_name, requests, responses,
                   generated_pdfs, call_vars, chat_vars, parked>>

\* fetch_github_release has its last answer r: it returns, and the caller
\* looks at what it returned
GithubFetched(r) ==
    /\ release_raw' = github_release_text(extracted.owner, extracted.repo,
                                          extracted.version, r)
    /\ IF startswith(release_raw', <<"E", "r", "r", "o", "r", ":">>)
       THEN /\ result' = [reply |-> <<"E", "r", "r", "o", "r", " ", "f", "e", "t", "c", "h", "i", "n", "g", " ", "G", "i", "t", "H", "u", "b", " ", "r", "e", "l", "e", "a", "s", "e", ":", " ">> \o release_raw']
            /\ pc' = "returned"
       ELSE /\ pc' = "classify"
            /\ UNCHANGED result

release_request(tag) ==
    [endpoint |-> "releases/tags", owner |-> extracted.owner, repo |-> extracted.repo,
     tag |-> tag]

\* the request for the tag as asked for
GithubFetchRelease ==
    /\ agent = "github" /\ pc = "fetch_release"
    /\ requests' = Append(requests, release_request(extracted.version))
    /\ \E r \in ReleaseResponses(extracted.version) :
        /\ responses' = Append(responses, r)
        /\ IF needs_fallback(extracted.version, r)
           THEN pc' = "fetch_release_fallback" /\ UNCHANGED <<release_raw, result>>
           ELSE GithubFetched(r)
    /\ UNCHANGED <<agent, llm_content, extracted, version_info_raw, release_date,
                   issues_raw, summarized_raw, release_notes_text, pdf_name,
                   generated_pdfs, call_vars, chat_vars, parked>>

\* the request for "v" + version
GithubFetchFallback ==
    /\ agent = "github" /\ pc = "fetch_release_fallback"
    /\ requests' = Append(requests, release_request(<<"v">> \o extracted.version))
    /\ \E r \in ReleaseResponses(<<"v">> \o extracted.version) :
        /\ responses' = Append(responses, r)
        /\ GithubFetched(r)
    /\ UNCHANGED <<agent, llm_content, extracted, version_info_raw, release_date,
                   issues_raw, summarized_raw, release_notes_text, pdf_name,
                   generated_pdfs, call_vars, chat_vars, parked>>

GithubClassify ==
    /\ agent = "github" /\ pc = "classify"
    /\ summarized_raw' = classify_and_summarize_release(release_raw)
    /\ IF startswith(summarized_raw', <<"E", "r", "r", "o", "r", ":">>)
       THEN /\ result' = [reply |-> <<"E", "r", "r", "o", "r", " ", "c", "l", "a", "s", "s", "i", "f", "y", "i", "n", "g", " ", "r", "e", "l", "e", "a", "s", "e", ":", " ">> \o summarized_raw']
            /\ pc' = "returned"
       ELSE /\ pc' = "format"
            /\ UNCHANGED result
    /\ UNCHANGED <<agent, llm_content, extracted, version_info_raw, release_date,
                   issues_raw, release_raw, release_notes_text, pdf_name, requests,
                   responses, generated_pdfs, call_vars, chat_vars, parked>>

GithubFormat ==
    /\ agent = "github" /\ pc = "format"
    /\ release_notes_text' = github_format_release_notes(
            extracted.owner, extracted.repo, extracted.version, summarized_raw)
    /\ IF startswith(release_notes_text', <<"E", "r", "r", "o", "r", ":">>)
       THEN /\ result' = [reply |-> <<"E", "r", "r", "o", "r", " ", "f", "o", "r", "m", "a", "t", "t", "i", "n", "g", " ", "r", "e", "l", "e", "a", "s", "e", " ", "n", "o", "t", "e", "s", ":", " ">> \o release_notes_text']
            /\ pc' = "returned"
       ELSE /\ pc' = "save"
            /\ UNCHANGED result
    /\ UNCHANGED <<agent, llm_content, extracted, version_info_raw, release_date,
                   issues_raw, release_raw, summarized_raw, pdf_name, requests,
                   responses, generated_pdfs, call_vars, chat_vars, parked>>

GithubSave ==
    /\ agent = "github" /\ pc = "save"
    /\ pdf_name' = github_pdf_name(extracted.owner, extracted.repo, extracted.version)
    /\ generated_pdfs' = write_file(generated_pdfs, pdf_name', save_to_pdf(release_notes_text))
    /\ result' = [reply |-> <<"G", "i", "t", "H", "u", "b", " ", "r", "e", "l", "e", "a", "s", "e", " ", "n", "o", "t", "e", "s", " ", "g", "e", "n", "e", "r", "a", "t", "e", "d", ".">>, owner |-> extracted.owner,
                  repo |-> extracted.repo, version |-> extracted.version,
                  pdf_name |-> pdf_name']
    /\ pc' = "returned"
    /\ UNCHANGED <<agent, llm_content, extracted, version_info_raw, release_date,
                   issues_raw, release_raw, summarized_raw, release_notes_text,
                   requests, responses, call_vars, chat_vars, parked>>

\* ---- what no try block of the run catches ----
\* chain.invoke raises: the extractor's call of the LLM is outside its try
ExtractRaises ==
    /\ pc = "extract"
    /\ pc' = "raised"
    /\ UNCHANGED <<agent, llm_content, extracted, version_info_raw, release_date,
                   issues_raw, release_raw, summarized_raw, release_notes_text,
                   pdf_name, result, requests, responses, generated_pdfs, call_vars, chat_vars, parked>>

\* os.makedirs or save_to_pdf raises: no file, no result
SaveRaises ==
    /\ pc = "save"
    /\ pc' = "raised"
    /\ UNCHANGED <<agent, llm_content, extracted, version_info_raw, release_date,
                   issues_raw, release_raw, summarized_raw, release_notes_text,
                   pdf_name, result, requests, responses, generated_pdfs, call_vars, chat_vars, parked>>

CallClassifyIssues ==
    /\ fn = "none"
    /\ "issues" \in DOMAIN json_loads(arg)
    /\ fn' = "classify_and_summarize_issues"
    /\ ret' = classify_and_summarize_issues(arg)
    /\ UNCHANGED <<arg, run_vars, chat_vars, parked>>

CallClassifyRelease ==
    /\ fn = "none"
    /\ "body" \in DOMAIN json_loads(arg)
    /\ fn' = "classify_and_summarize_release"
    /\ ret' = classify_and_summarize_release(arg)
    /\ UNCHANGED <<arg, run_vars, chat_vars, parked>>

\* clean_github_line on a line, then on its own result
CallClean ==
    /\ fn = "none"
    /\ fn' = "clean_github_line"
    /\ ret' = <<clean_github_line(arg)>>
    /\ UNCHANGED <<arg, run_vars, chat_vars, parked>>

CallCleanAgain ==
    /\ fn = "clean_github_line"
    /\ Len(ret) = 1
    /\ ret' = Append(ret, clean_github_line(ret[1]))
    /\ UNCHANGED <<fn, arg, run_vars, chat_vars, parked>>

vars == <<run_vars, fn, arg, ret, chat_vars, parked>>

\* chat_endpoint is not running
NoChat == is_safe = None /\ verdicts = <<>> /\ response = None

\* no run of an agent
NoRun ==
    /\ agent = "none" /\ pc = "idle" /\ llm_content = <<>> /\ extracted = None
    /\ result = None /\ responses = <<>>
    /\ version_info_raw = <<>> /\ release_date = <<>> /\ issues_raw = <<>>
    /\ release_raw = <<>> /\ summarized_raw = <<>> /\ release_notes_text = <<>>
    /\ pdf_name = <<>> /\ requests = <<>> /\ generated_pdfs = {}
    /\ NoChat /\ parked = None

\* no direct call
NoCall == fn = "none" /\ arg = <<>> /\ ret = <<>>

Init ==
    /\ agent \in {"jira", "github"} /\ pc = "extract" /\ llm_content = <<>>
    /\ extracted = None /\ result = None /\ responses = <<>>
    /\ version_info_raw = <<>> /\ release_date = <<>> /\ issues_raw = <<>>
    /\ release_raw = <<>> /\ summarized_raw = <<>> /\ release_notes_text = <<>>
    /\ pdf_name = <<>> /\ requests = <<>> /\ generated_pdfs = {}
    /\ NoChat /\ parked = None
    /\ NoCall

Next ==
    \/ JiraExtract \/ JiraFetchVersionInfo \/ JiraFetchIssues \/ JiraClassify
    \/ JiraFormat \/ JiraSave
    \/ GithubExtract \/ GithubFetchRelease \/ GithubFetchFallback \/ GithubClassify
    \/ GithubFormat \/ GithubSave
    \/ ExtractRaises \/ SaveRaises

Spec == Init /\ [][Next]_vars

InitClassify == NoRun /\ fn = "none" /\ ret = <<>> /\ arg \in IssuesInputs \cup ReleaseInputs

NextClassify == CallClassifyIssues \/ CallClassifyRelease

SpecClassify == InitClassify /\ [][NextClassify]_vars

InitClean == NoRun /\ fn = "none" /\ ret = <<>> /\ arg \in LineInputs

NextClean == CallClean \/ CallCleanAgain

SpecClean == InitClean /\ [][NextClean]_vars

(***************************************************************************)
(* Claims                                                                  *)
(***************************************************************************)
Count(seq, x) == Cardinality({i \in 1..Len(seq) : seq[i] = x})

\* a and b hold the same items, each as many times
SamePopulation(a, b) ==
    /\ Len(a) = Len(b)
    /\ \A i \in 1..Len(a) : Count(a, a[i]) = Count(b, a[i])

\* the lines of all the categories, one category after another
AllLines(categories) == concat(dict_values(categories))

KeysDistinct(categories) ==
    \A i, j \in 1..Len(categories) : categories[i][1] = categories[j][1] => i = j

IssuesCalled == fn = "classify_and_summarize_issues"

ReleaseCalled == fn = "classify_and_summarize_release"

InputIssues == json_loads(arg).issues

\* the body lines that are not empty after cleaning: the release classifier's items
InputLines == clean_lines(splitlines(json_loads(arg).body))

Categories == json_loads(ret).categories

\* C1: for both classifiers the per-category line counts add up to the number
\* of input items, and the lines of the categories are the input items, each
\* as often as it was given, under distinct category keys: none is dropped,
\* none is duplicated.
C1_NoLossNoDuplication ==
    /\ IssuesCalled =>
         /\ total_len(Categories) = Len(InputIssues)
         /\ KeysDistinct(Categories)
         /\ SamePopulation([i \in 1..Len(InputIssues) |-> issue_line(InputIssues[i])],
                           AllLines(Categories))
    /\ ReleaseCalled =>
         /\ total_len(Categories) = Len(InputLines)
         /\ KeysDistinct(Categories)
         /\ SamePopulation(InputLines, AllLines(Categories))

\* two issues of one type: one category holding both lines
C1_Witness ==
    /\ IssuesCalled
    /\ Len(InputIssues) = 2
    /\ InputIssues[1].key # InputIssues[2].key
    /\ Len(Categories) = 1
    /\ Len(Categories[1][2]) = 2

\* a is before b in lexicographic order of the code points
LexLess(a, b) ==
    \E k \in 1..(Len(b)) :
        /\ k <= Len(a) + 1
        /\ SubSeq(a, 1, k - 1) = SubSeq(b, 1, k - 1)
        /\ (k = Len(a) + 1 \/ ord(a[k]) < ord(b[k]))

\* C2: the category keys of classify_and_summarize_issues are exactly the
\* distinct issue types of the input, in lexicographically ascending order.
C2_KeysAreSortedKinds ==
    IssuesCalled =>
        LET keys == dict_keys(Categories)
        IN  /\ {keys[i] : i \in 1..Len(keys)}
                 = {InputIssues[i].type : i \in 1..Len(InputIssues)}
            /\ \A i, j \in 1..Len(keys) : i < j => LexLess(keys[i], keys[j])

\* the input has Task before Bug, the result Bug before Task
C2_Witness ==
    /\ IssuesCalled
    /\ Len(InputIssues) = 2
    /\ InputIssues[1].type = <<"T", "a", "s", "k">>
    /\ InputIssues[2].type = <<"B", "u", "g">>
    /\ dict_keys(Categories) = <<<<"B", "u", "g">>, <<"T", "a", "s", "k">>>>

DisplayOrder == <<<<"F", "e", "a", "t", "u", "r", "e", "s">>, <<"B", "u", "g", " ", "F", "i", "x", "e", "s">>, <<"I", "m", "p", "r", "o", "v", "e", "m", "e", "n", "t", "s">>, <<"O", "t", "h", "e", "r", "s">>>>

\* C3: the categories of classify_and_summarize_release are the members of
\* Features, Bug Fixes, Improvements, Others that hold a line, in that order,
\* whatever the order of the body's lines; none of them is empty and no line
\* is left out.
C3_FixedDisplayOrder ==
    ReleaseCalled =>
        LET names == dict_keys(Categories)
        IN  /\ \A i \in 1..Len(Categories) : Categories[i][2] # <<>>
            /\ names = SelectSeq(DisplayOrder,
                                 LAMBDA c : \E i \in 1..Len(names) : names[i] = c)
            /\ KeysDistinct(Categories)
            /\ total_len(Categories) = Len(InputLines)

\* a body with its Others line before its Features line
C3_Witness ==
    /\ ReleaseCalled
    /\ InputLines = <<<<"m", "i", "s", "c">>, <<"N", "E", "W", " ", "A", "P", "I">>>>
    /\ dict_keys(Categories) = <<<<"F", "e", "a", "t", "u", "r", "e", "s">>, <<"O", "t", "h", "e", "r", "s">>>>

\* the line holds the word w, whatever the case of the line's letters
HasWord(ln, w) ==
    \E i \in 1..(Len(ln) - Len(w) + 1) :
        \A j \in 1..Len(w) : lower_char(ln[i + j - 1]) = w[j]

ExpectedCategory(ln) ==
    IF HasWord(ln, <<"f", "i", "x">>) \/ HasWord(ln, <<"b", "u", "g">>) THEN <<"B", "u", "g", " ", "F", "i", "x", "e", "s">>
    ELSE IF HasWord(ln, <<"f", "e", "a", "t", "u", "r", "e">>) \/ HasWord(ln, <<"a", "d", "d">>) \/ HasWord(ln, <<"n", "e", "w">>)
         THEN <<"F", "e", "a", "t", "u", "r", "e", "s">>
    ELSE IF HasWord(ln, <<"i", "m", "p", "r", "o", "v", "e">>) \/ HasWord(ln, <<"u", "p", "d", "a", "t", "e">>) \/ HasWord(ln, <<"e", "n", "h", "a", "n", "c", "e">>)
         THEN <<"I", "m", "p", "r", "o", "v", "e", "m", "e", "n", "t", "s">>
    ELSE <<"O", "t", "h", "e", "r", "s">>

InCategory(categories, c, ln) ==
    \E i \in 1..Len(categories) :
        /\ categories[i][1] = c
        /\ \E j \in 1..Len(categories[i][2]) : categories[i][2][j] = ln

\* C4: every cleaned line is in the category of the first keyword group it
\* matches, tested case-insensitively as substrings in the order fix/bug,
\* feature/add/new, improve/update/enhance, else Others; a line with both
\* "fix" and "feature" is under Bug Fixes.
C4_KeywordPrecedence ==
    ReleaseCalled =>
        \A n \in 1..Len(InputLines) :
            /\ InCategory(Categories, ExpectedCategory(InputLines[n]), InputLines[n])
            /\ (HasWord(InputLines[n], <<"f", "i", "x">>) /\ HasWord(InputLines[n], <<"f", "e", "a", "t", "u", "r", "e">>))
                  => InCategory(Categories, <<"B", "u", "g", " ", "F", "i", "x", "e", "s">>, InputLines[n])

\* a line with "Fix" and "feature" ends under Bug Fixes
C4_Witness ==
    /\ ReleaseCalled
    /\ InCategory(Categories, <<"B", "u", "g", " ", "F", "i", "x", "e", "s">>, <<"F", "i", "x", " ", "t", "h", "e", " ", "n", "e", "w", " ", "f", "e", "a", "t", "u", "r", "e">>)

CleanedTwice == fn = "clean_github_line" /\ Len(ret) = 2

\* C5 as claimed: cleaning an already-cleaned line changes nothing.
C5_CleanIdempotent == CleanedTwice => ret[2] = ret[1]

StartsWithBullet(s) == s # <<>> /\ s[1] \in {"*", "-", "+"}

\* s holds [text](url), text without "]" and url without ")", neither empty
HasLink(s) ==
    \E i, j, k \in 1..Len(s) :
        /\ s[i] = "[" /\ i + 2 <= j /\ s[j] = "]"
        /\ \A m \in (i + 1)..(j - 1) : s[m] # "]"
        /\ j + 3 <= k /\ s[j + 1] = "(" /\ s[k] = ")"
        /\ \A m \in (j + 2)..(k - 1) : s[m] # ")"

\* C5 as amended: cleaning an already-cleaned line changes nothing exactly
\* when the cleaned line neither starts with a bullet glyph nor still holds a
\* markdown link.
C5_CleanIdempotentUnlessBulletOrLink ==
    CleanedTwice => (ret[2] = ret[1] <=> ~StartsWithBullet(ret[1]) /\ ~HasLink(ret[1]))

\* a bulleted link is cleaned to its text, and cleaning that again keeps it
C5_Witness ==
    /\ CleanedTwice
    /\ arg = <<"*", "[", "a", "]", "(", "b", ")">>
    /\ ret = <<<<"a">>, <<"a">>>>

Returned == pc = "returned"

\* the run returned the name of a document
Succeeded == Returned /\ "pdf_name" \in DOMAIN result

\* s begins with p
HasPrefix(s, p) == Len(s) >= Len(p) /\ \A i \in 1..Len(p) : s[i] = p[i]

\* the upstream did not give a usable answer: no response, a status that is
\* not 2xx, or a body that does not parse
Failed(r) == r.raised # <<>> \/ r.status_code < 200 \/ r.status_code > 299 \/ ~r.is_json

\* the story of the file the run wrote
WrittenStory == (CHOOSE f \in generated_pdfs : f.name = pdf_name).story

\* the versions list arrived and names no version as the requested one
NoMatchingVersion ==
    /\ agent = "jira"
    /\ Len(responses) >= 1
    /\ ~Failed(responses[1])
    /\ \A i \in 1..Len(responses[1].json) :
          ~("name" \in DOMAIN responses[1].json[i]
            /\ responses[1].json[i].name = extracted.version)

\* the text has the level-2 heading Release Date with d on the line under it
DateSection(text, d) ==
    LET lines == splitlines(text)
    IN  \E i \in 1..(Len(lines) - 1) : lines[i] = <<"#", "#", " ", "R", "e", "l", "e", "a", "s", "e", " ", "D", "a", "t", "e">> /\ lines[i + 1] = d

\* the story has the Heading-2 block Release Date with the body text d under it
StoryDateSection(story, d) ==
    \E i \in 1..(Len(story) - 1) :
        /\ story[i] = [style |-> "Header2", text |-> <<"R", "e", "l", "e", "a", "s", "e", " ", "D", "a", "t", "e">>]
        /\ story[i + 1] = [style |-> "NormalText", text |-> d]

\* C6: when the versions list names no version as the requested one, the
\* release date is "Unknown", the metadata stage does not fail and the run
\* goes on to the issue fetch; once the issues are fetched it goes on to
\* compose and render, and the document and the rendered story hold "Unknown"
\* in their Release Date section.
C6_UnknownDateWhenNoMatch ==
    NoMatchingVersion =>
        /\ release_date = <<"U", "n", "k", "n", "o", "w", "n">>
        /\ Len(responses) = 1 => pc = "fetch_issues"
        /\ Returned => ~HasPrefix(result.reply, <<"E", "r", "r", "o", "r", " ", "f", "e", "t", "c", "h", "i", "n", "g", " ", "v", "e", "r", "s", "i", "o", "n", " ", "i", "n", "f", "o">>)
        /\ (Len(responses) = 2 /\ ~Failed(responses[2]))
              => (pc \in {"classify", "format", "save", "raised"} \/ Succeeded)
        /\ release_notes_text # <<>> => DateSection(release_notes_text, <<"U", "n", "k", "n", "o", "w", "n">>)
        /\ Succeeded => StoryDateSection(WrittenStory, <<"U", "n", "k", "n", "o", "w", "n">>)

\* a list with another version only, and the document written
C6_Witness ==
    /\ NoMatchingVersion
    /\ Len(responses[1].json) = 1
    /\ Succeeded
    /\ StoryDateSection(WrittenStory, <<"U", "n", "k", "n", "o", "w", "n">>)

\* the first lookup answered 404 and the lookup of "v" + version gave a release
FallbackSucceeded ==
    /\ agent = "github"
    /\ Len(responses) = 2
    /\ responses[1].status_code = 404
    /\ ~Failed(responses[2])

\* the tag_name fetch_github_release returned
ResolvedTag == json_loads(release_raw).tag_name

\* {owner}_{repo with slashes as underscores}_v{v}_release_notes.pdf
ReleaseHostFileName(owner, repo, v) ==
    owner \o <<"_">> \o [i \in 1..Len(repo) |-> IF repo[i] = "/" THEN "_" ELSE repo[i]]
    \o <<"_", "v">> \o v \o <<"_", "r", "e", "l", "e", "a", "s", "e", "_", "n", "o", "t", "e", "s", ".", "p", "d", "f">>

\* C7 as claimed: after a successful fallback the file name is built from the
\* resolved tag_name and not from the requested version string.
C7_FileNameFromResolvedTag ==
    (FallbackSucceeded /\ Succeeded) =>
        /\ result.pdf_name = ReleaseHostFileName(extracted.owner, extracted.repo, ResolvedTag)
        /\ ResolvedTag # extracted.version
              => result.pdf_name
                   # ReleaseHostFileName(extracted.owner, extracted.repo, extracted.version)

\* C7 as amended: after a successful fallback the file name is built from the
\* requested version string, whatever tag_name the release carries; the
\* resolved tag_name is what the document's level-1 heading shows.
C7_FileNameFromRequestedVersion ==
    (FallbackSucceeded /\ Succeeded) =>
        /\ result.pdf_name
             = ReleaseHostFileName(extracted.owner, extracted.repo, extracted.version)
        /\ \E f \in generated_pdfs : f.name = result.pdf_name
        /\ splitlines(release_notes_text)[1]
             = <<"#", " ">> \o upper(extracted.repo) \o <<" ", "R", "e", "l", "e", "a", "s", "e", " ">> \o ResolvedTag

\* "1" was asked for, the release of tag "v1" was found
C7_Witness ==
    /\ FallbackSucceeded
    /\ Succeeded
    /\ extracted.version = <<"1">>
    /\ ResolvedTag = <<"v", "1">>

RequiredFields ==
    IF agent = "jira" THEN {"project", "version"} ELSE {"owner", "repo", "version"}

\* the extractor's LLM answered, with a text that is no JSON or with an object
\* that lacks a required field
NoIntent ==
    /\ llm_content # <<>>
    /\ \/ ~is_json(llm_content)
       \/ \E f \in RequiredFields : f \notin DOMAIN json_loads(llm_content)

Clarification ==
    IF agent = "jira"
    THEN <<"P", "l", "e", "a", "s", "e", " ", "p", "r", "o", "v", "i", "d", "e", " ", "p", "r", "o", "j", "e", "c", "t", " ", "a", "n", "d", " ", "v", "e", "r", "s", "i", "o", "n", ".", " ", "E", "x", "a", "m", "p", "l", "e", ":", " ", "Z", "O", "O", "K", "E", "E", "P", "E", "R", " ", "3", ".", "9", ".", "0">>
    ELSE <<"P", "l", "e", "a", "s", "e", " ", "p", "r", "o", "v", "i", "d", "e", " ", "o", "w", "n", "e", "r", "/", "r", "e", "p", "o", " ", "a", "n", "d", " ", "v", "e", "r", "s", "i", "o", "n", ".", " ", "E", "x", "a", "m", "p", "l", "e", ":", " ", "a", "p", "a", "c", "h", "e", "/", "z", "o", "o", "k", "e", "e", "p", "e", "r", " ", "3", ".", "9", ".", "0">>

\* C8: when the extractor yields no intent the run has returned a result that
\* holds the clarification reply and nothing else, and no request was issued
\* to the upstream at any point of the run.
C8_NoIntentNoFetch ==
    NoIntent =>
        /\ Returned
        /\ DOMAIN result = {"reply"}
        /\ result.reply = Clarification
        /\ requests = <<>> /\ responses = <<>>
        /\ generated_pdfs = {}

\* an object without the version field
C8_Witness ==
    /\ NoIntent
    /\ agent = "jira"
    /\ is_json(llm_content)
    /\ "project" \in DOMAIN json_loads(llm_content)
    /\ Returned

IssueFetchFailed == agent = "jira" /\ Len(responses) = 2 /\ Failed(responses[2])

\* C9: when the issue fetch fails the run has returned a result whose reply
\* begins with "Error fetching issues: " and that holds nothing else; nothing
\* was classified, no document was composed and no file was written.
C9_IssueFetchFailure ==
    IssueFetchFailed =>
        /\ Returned
        /\ DOMAIN result = {"reply"}
        /\ HasPrefix(result.reply, <<"E", "r", "r", "o", "r", " ", "f", "e", "t", "c", "h", "i", "n", "g", " ", "i", "s", "s", "u", "e", "s", ":", " ">>)
        /\ summarized_raw = <<>> /\ release_notes_text = <<>>
        /\ pdf_name = <<>> /\ generated_pdfs = {}

\* a 500 with a JSON body from the search endpoint
C9_Witness ==
    /\ IssueFetchFailed
    /\ responses[2].status_code = 500
    /\ responses[2].is_json
    /\ Returned

\* every stage of the run succeeded: an intent, and usable answers to the
\* fetches (the fallback's answer when the release host was asked twice)
AllStagesSucceeded ==
    /\ ~NoIntent
    /\ IF agent = "jira"
       THEN Len(responses) = 2 /\ ~Failed(responses[1]) /\ ~Failed(responses[2])
       ELSE Len(responses) >= 1 /\ ~Failed(responses[Len(responses)])
    /\ release_notes_text # <<>> /\ ~HasPrefix(release_notes_text, <<"E", "r", "r", "o", "r", ":">>)

\* C10: a run has a result exactly when it returned; every result holds a
\* reply; it holds pdf_name exactly when every stage succeeded and the file of
\* that name was written.
C10_PdfNameIffSuccess ==
    /\ Returned <=> result # None
    /\ Returned =>
         /\ "reply" \in DOMAIN result
         /\ result.reply # <<>>
         /\ "pdf_name" \in DOMAIN result
              <=> /\ AllStagesSucceeded
                  /\ \E f \in generated_pdfs : f.name = pdf_name /\ f.story # <<>>
         /\ "pdf_name" \in DOMAIN result => result.pdf_name = pdf_name

\* a successful run of the issue-tracker agent
C10_Witness ==
    /\ Succeeded
    /\ agent = "jira"
    /\ \E f \in generated_pdfs : f.name = result.pdf_name

(***************************************************************************)
(* Faults, requests and the order of the stages                            *)
(***************************************************************************)
\* the run ended with an exception leaving generate_release_notes_from_query
Faulted == pc = "raised"

\* C11 as claimed: a failure of any stage is caught inside
\* generate_release_notes_from_query and becomes a reply; no run ends with an
\* exception leaving the function.
C11_NoUncaughtFault == ~Faulted

\* the fetch of the release has returned
ReleaseFetchDone ==
    agent = "github" /\ pc \in {"classify", "format", "save", "returned", "raised"}
    /\ extracted # None

\* the first answer to the release request was a 404
FirstAnswerNotFound ==
    Len(responses) >= 1 /\ responses[1].raised = <<>> /\ responses[1].status_code = 404

\* the request for a tag of the run's repository
TagRequest(tag) ==
    [endpoint |-> "releases/tags", owner |-> extracted.owner, repo |-> extracted.repo,
     tag |-> tag]

\* what the requests of a run are, at any moment of it
RequestsOfRun ==
    /\ Len(requests) <= 2
    /\ Len(responses) = Len(requests)
    /\ agent = "github" =>
        /\ Len(requests) >= 1 => requests[1] = TagRequest(extracted.version)
        /\ Len(requests) = 2 =>
              /\ requests[2] = TagRequest(<<"v">> \o extracted.version)
              /\ FirstAnswerNotFound
              /\ ~HasPrefix(extracted.version, <<"v">>)
        /\ ReleaseFetchDone =>
              /\ Len(requests) >= 1
              /\ (Len(requests) = 2
                    <=> (FirstAnswerNotFound /\ ~HasPrefix(extracted.version, <<"v">>)))
    /\ agent = "jira" =>
        /\ Len(requests) >= 1 => requests[1].endpoint = "project/versions"
        /\ Len(requests) = 2 => requests[2].endpoint = "search"

\* a step of a stage that is no fetch issues no request
NoRequestOutsideFetch ==
    pc \notin {"fetch_version", "fetch_issues", "fetch_release", "fetch_release_fallback"}
        => requests' = requests

\* a step of a fetch stage issues one request
OneRequestPerFetch ==
    pc \in {"fetch_version", "fetch_issues", "fetch_release", "fetch_release_fallback"}
        => (requests' = requests \/ (Len(requests') = Len(requests) + 1
                                      /\ SubSeq(requests', 1, Len(requests)) = requests))

\* C13: fetch_github_release issues at most two requests: the first for the
\* requested tag, the second for "v" + tag, issued exactly when the first
\* answer is a 404 and the version does not start with "v"; nothing is
\* requested after it, and no stage of either agent repeats a request.
C13_AtMostTwoRequests ==
    /\ []RequestsOfRun
    /\ [][NoRequestOutsideFetch /\ OneRequestPerFetch]_vars

\* the fallback was tried and the run went on to write its document
C13_Witness ==
    /\ agent = "github" /\ Len(requests) = 2 /\ Succeeded
    /\ requests[2].tag = <<"v">> \o requests[1].tag

\* the stages of the issue-tracker run, in the order of the code
StageOrder == <<"extract", "fetch_version", "fetch_issues", "classify", "format", "save">>

StageIndex(s) == CHOOSE i \in 1..Len(StageOrder) : StageOrder[i] = s

Ended == pc \in {"returned", "raised"}

\* the stage the run is in was entered after every earlier stage succeeded
EarlierStagesSucceeded ==
    (agent = "jira" /\ ~Ended) =>
        /\ StageIndex(pc) >= 2 => (extracted # None /\ ~NoIntent)
        /\ StageIndex(pc) >= 3 => (Len(responses) >= 1 /\ ~Failed(responses[1]))
        /\ StageIndex(pc) >= 4 => (Len(responses) = 2 /\ ~Failed(responses[2]))
        /\ StageIndex(pc) >= 5
              => (summarized_raw # <<>> /\ ~HasPrefix(summarized_raw, <<"E", "r", "r", "o", "r", ":">>))
        /\ StageIndex(pc) >= 6
              => (release_notes_text # <<>> /\ ~HasPrefix(release_notes_text, <<"E", "r", "r", "o", "r", ":">>))

\* what a stage leaves is there only if the stage was entered: after a failed
\* metadata fetch no item fetch is issued, after a failed item fetch nothing
\* is classified, composed or written
FailureEndsRun ==
    agent = "jira" =>
        /\ (Len(responses) >= 1 /\ Failed(responses[1]))
              => (Ended /\ Len(requests) = 1 /\ issues_raw = <<>>)
        /\ (Len(responses) = 2 /\ Failed(responses[2]))
              => (Ended /\ summarized_raw = <<>>)
        /\ (NoIntent /\ llm_content # <<>>) => (Ended /\ requests = <<>>)
        /\ Faulted \/ (Returned /\ ~Succeeded) => generated_pdfs = {}

\* every step leaves its stage: it enters the next stage of the order or ends
\* the run, so that no stage is entered twice; a run that ended takes no step
NextStageOrEnd ==
    agent = "jira" =>
        IF Ended THEN FALSE
        ELSE \/ pc' \in {"returned", "raised"}
             \/ (StageIndex(pc) < Len(StageOrder) /\ pc' = StageOrder[StageIndex(pc) + 1])

\* C16: the issue-tracker run enters its stages in the order extract, fetch
\* metadata, fetch items, classify, compose, render and persist, each at most
\* once; a stage is entered only when every earlier one succeeded, and the
\* first failure ends the run.
C16_StagesInOrder ==
    /\ [](EarlierStagesSucceeded /\ FailureEndsRun)
    /\ [][NextStageOrEnd]_vars

\* the metadata fetch failed: one request was issued and the run has ended
C16_Witness ==
    /\ agent = "jira" /\ Len(responses) = 1 /\ Failed(responses[1])
    /\ Returned /\ Len(requests) = 1

(***************************************************************************)
(* The composed document                                                   *)
(***************************************************************************)
\* a document was composed
Composed == release_notes_text # <<>> /\ ~HasPrefix(release_notes_text, <<"E", "r", "r", "o", "r", ":">>)

\* the categories of the run's classified result, in their order
RunCategories == json_loads(summarized_raw).categories

\* the lines of the composed document
NotesLines == splitlines(release_notes_text)

DecimalDigits == <<"0", "1", "2", "3", "4", "5", "6", "7", "8", "9">>

\* n in decimal
RECURSIVE Decimal(_)
Decimal(n) ==
    IF n < 10 THEN <<DecimalDigits[n + 1]>>
    ELSE Decimal(n \div 10) \o <<DecimalDigits[(n % 10) + 1]>>

\* the list item "- **label**: n"
CountItem(label, n) == <<"-", " ", "*", "*">> \o label \o <<"*", "*", ":", " ">> \o Decimal(n)

\* the lines the section of a category takes: heading, items, blank line
SectionSize(category) == IF category[2] = <<>> THEN 0 ELSE Len(category[2]) + 2

\* the lines the sections of the first j categories take
RECURSIVE SectionsSize(_, _)
SectionsSize(categories, j) ==
    IF j = 0 THEN 0
    ELSE SectionsSize(categories, j - 1) + SectionSize(categories[j])

\* the number of classified lines
RECURSIVE ItemCount(_)
ItemCount(categories) ==
    IF categories = <<>> THEN 0 ELSE Len(categories[1][2]) + ItemCount(Tail(categories))

\* the date the document is to show
RunDate ==
    IF agent = "jira" THEN release_date
    ELSE get(json_loads(summarized_raw), "published_at", <<"U", "n", "k", "n", "o", "w", "n">>)

\* C17: the composed document is, in this order: one level-1 heading; the
\* level-2 heading Release Date and the date; the level-2 heading Summary, the
\* total count and one count per category in category order; then for every
\* category with lines, in the same order, its level-2 heading and one list
\* item per line.  The total is the sum of the counts and the number of list
\* items of the category sections.
C17_DocumentStructure ==
    Composed =>
        LET lines == NotesLines
            cats  == RunCategories
            k     == Len(cats)
            first == 8 + k
            label == IF agent = "jira" THEN <<"T", "o", "t", "a", "l", " ", "I", "s", "s", "u", "e", "s">> ELSE <<"T", "o", "t", "a", "l", " ", "I", "t", "e", "m", "s">>
        IN  /\ Len(lines) = first + SectionsSize(cats, k)
            /\ HasPrefix(lines[1], <<"#", " ">>) /\ lines[2] = <<>>
            /\ \A i \in 5..Len(lines) : ~HasPrefix(lines[i], <<"#", " ">>)
            /\ lines[3] = <<"#", "#", " ", "R", "e", "l", "e", "a", "s", "e", " ", "D", "a", "t", "e">> /\ lines[4] = RunDate /\ lines[5] = <<>>
            /\ lines[6] = <<"#", "#", " ", "S", "u", "m", "m", "a", "r", "y">>
            /\ lines[7] = CountItem(label, ItemCount(cats))
            /\ \A j \in 1..k : lines[7 + j] = CountItem(cats[j][1], Len(cats[j][2]))
            /\ lines[first] = <<>>
            /\ \A j \in 1..k :
                  LET start == first + SectionsSize(cats, j - 1)
                      items == cats[j][2]
                  IN  items # <<>> =>
                        /\ lines[start + 1] = <<"#", "#", " ">> \o cats[j][1]
                        /\ \A m \in 1..Len(items) : lines[start + 1 + m] = <<"-", " ">> \o items[m]
                        /\ lines[start + Len(items) + 2] = <<>>
            /\ Cardinality({i \in (first + 1)..Len(lines) : HasPrefix(lines[i], <<"-", " ">>)})
                  = ItemCount(cats)

\* a document of two categories, one of them with the empty name
C17_Witness ==
    /\ Composed /\ agent = "jira"
    /\ Len(RunCategories) = 2
    /\ RunCategories[1][1] = <<>>
    /\ ItemCount(RunCategories) = 2

\* C19 as claimed: rendering the composed document gives, for every category
\* of the classified result, one Heading-2 block carrying the category name
\* and under it one list-item block per line of the category, so that the
\* list-item blocks after the Summary section are as many as the classified
\* items.
C19_ComposerRendererAgree ==
    Succeeded =>
        LET story == WrittenStory
            cats  == RunCategories
            k     == Len(cats)
            first == 8 + k
        IN  /\ Len(story) = first + SectionsSize(cats, k)
            /\ \A j \in 1..k :
                  LET start == first + SectionsSize(cats, j - 1)
                  IN  /\ story[start + 1] = [style |-> "Header2", text |-> cats[j][1]]
                      /\ \A m \in 1..Len(cats[j][2]) : story[start + 1 + m].style = "ListItem"
            /\ Cardinality({i \in (first + 1)..Len(story) : story[i].style = "ListItem"})
                  = ItemCount(cats)
            /\ Cardinality({i \in (first + 1)..Len(story) : story[i].style = "Header2"}) = k

(***************************************************************************)
(* save_to_pdf called on a document text                                   *)
(***************************************************************************)
MaxDocLines == 2

\* lines of a document text: what the composer writes, and lines with blanks
\* before or after the text
DocLines ==
    {<<>>, <<" ", " ">>, <<"#", " ", "Z", "K", " ", "R", "e", "l", "e", "a", "s", "e", " ", "1">>, <<"#", "#", " ", "S", "u", "m", "m", "a", "r", "y">>, <<"-", " ", "*", "*", "T", "o", "t", "a", "l", " ", "I", "s", "s", "u", "e", "s", "*", "*", ":", " ", "2">>, <<"-", " ", "Z", "-", "1", ":", " ", "F", "i", "x", " ", "*", "*", "i", "t", "*", "*">>,
     <<"U", "n", "k", "n", "o", "w", "n">>, <<"a", " ", "*", "*", "b", "*", "*", " ", "c", " ", "*", "*", "d", "*", "*">>, <<"#", "#", " ">>, <<"#", " ">>, <<"-", " ">>, <<" ", "#", " ", "x">>, <<" ", " ", "-", " ", "y">>, <<"p", "l", "a", "i", "n", " ">>, <<"#", " ", "*", "*", "b", "*", "*">>, <<"#", "#", " ", "*", "*", "b", "*", "*">>,
     <<"#", "x">>, <<"-", "x">>}

DocumentInputs == {join_lines(ls) : ls \in BoundedSeq(DocLines, MaxDocLines)}

CallSaveToPdf ==
    /\ fn = "none"
    /\ fn' = "save_to_pdf"
    /\ ret' = save_to_pdf(arg)
    /\ UNCHANGED <<arg, run_vars, chat_vars, parked>>

InitRender == NoRun /\ fn = "none" /\ ret = <<>> /\ arg \in DocumentInputs

NextRender == CallSaveToPdf

SpecRender == InitRender /\ [][NextRender]_vars

\* save_to_pdf was called: arg is the text, ret the story
Rendered == fn = "save_to_pdf"

\* the text without its first n characters
Rest(s, n) == SubSeq(s, n + 1, Len(s))

\* s without the blanks before and after it
Stripped(s) ==
    LET inked == {i \in 1..Len(s) : ~isspace(s[i])}
    IN  IF inked = {} THEN <<>>
        ELSE SubSeq(s, CHOOSE i \in inked : \A j \in inked : i <= j,
                       CHOOSE i \in inked : \A j \in inked : j <= i)

\* the block of a line whose role is read from the text s
BlockOf(s) ==
    IF Stripped(s) = <<>> THEN [style |-> "Spacer", text |-> <<>>]
    ELSE IF HasPrefix(s, <<"#", " ">>) THEN [style |-> "Header1", text |-> Rest(s, 2)]
    ELSE IF HasPrefix(s, <<"#", "#", " ">>) THEN [style |-> "Header2", text |-> Rest(s, 3)]
    ELSE IF HasPrefix(s, <<"-", " ">>)
         THEN [style |-> "ListItem", text |-> <<"-", " ">> \o sub_emphasis(Rest(s, 2), 1)]
    ELSE [style |-> "NormalText", text |-> sub_emphasis(s, 1)]

JiraIntents ==
    {[source |-> "jira", project |-> p, version |-> v] :
        p \in {<<"A">>, <<"A", "_", "B">>, <<"Z">>}, v \in {<<"1">>, <<"2">>}}

GithubIntents ==
    {[source |-> "github", owner |-> o, repo |-> r, version |-> v] :
        o \in {<<"A">>, <<"a">>}, r \in {<<"B">>, <<"b", "_", "c">>, <<"b", "/", "c">>}, v \in {<<"1">>, <<"2">>}}

IntentPairs == (JiraIntents \cup GithubIntents) \X (JiraIntents \cup GithubIntents)

\* pdf_name as the agent of the intent's source builds it
intent_pdf_name(intent) ==
    IF intent.source = "jira" THEN jira_pdf_name(intent.project, intent.version)
    ELSE github_pdf_name(intent.owner, intent.repo, intent.version)

CallPdfNames ==
    /\ fn = "none"
    /\ fn' = "pdf_name"
    /\ ret' = <<intent_pdf_name(arg[1]), intent_pdf_name(arg[2])>>
    /\ UNCHANGED <<arg, run_vars, chat_vars, parked>>

InitNames == NoRun /\ fn = "none" /\ ret = <<>> /\ arg \in IntentPairs

NextNames == CallPdfNames

SpecNames == InitNames /\ [][NextNames]_vars

\* C20 as claimed: two different intents never have the same file name.
C20_DistinctIntentsDistinctNames ==
    (fn = "pdf_name" /\ arg[1] # arg[2]) => ret[1] # ret[2]

(***************************************************************************)
(* chat_endpoint of app.py and the tools of jira_mcp_server.py             *)
(*                                                                         *)
(* A Python value whose type the code tests is a record with one field     *)
(* named after the type: [bool |-> b], [str |-> text], [list |-> blocks],  *)
(* [dict |-> d].                                                           *)
(***************************************************************************)
\* response.content.strip().upper() == "SAFE"
llama_guard_check(content) == upper(strip(content)) = <<"S", "A", "F", "E">>

\* the contents the guard's LLM answers with
GuardContents == {<<"S", "A", "F", "E">>, <<" ", "s", "a", "f", "e", "\n">>, <<"U", "N", "S", "A", "F", "E">>, <<"U", "n", "s", "a", "f", "e">>, <<"S", "A", "F", "E", ".">>}

\* the tool transport: the bool a tool returned, as the client's ainvoke hands
\* it over: as it is, as its JSON text, or as a list of one text block
Delivered(verdict) ==
    LET text == IF verdict THEN <<"t", "r", "u", "e">> ELSE <<"f", "a", "l", "s", "e">>
    IN  {[bool |-> verdict],
         [str |-> text],
         [list |-> <<[type |-> <<"t", "e", "x", "t">>, text |-> text]>>]}

\* json.loads(text) for the text of a tool's answer; a text that is no JSON
\* is kept as {"reply": text}
loads_or_reply(text) ==
    IF text = <<"t", "r", "u", "e">> THEN [bool |-> TRUE]
    ELSE IF text = <<"f", "a", "l", "s", "e">> THEN [bool |-> FALSE]
    ELSE [dict |-> [reply |-> [str |-> text]]]

\* faulty variant of unwrap_mcp_result: a text is never parsed, it is kept as
\* {"reply": text}
unwrap_mcp_result_unparsed(answer) ==
    IF "dict" \in DOMAIN answer \/ "bool" \in DOMAIN answer THEN answer
    ELSE IF "list" \in DOMAIN answer /\ Len(answer.list) > 0
            /\ "text" \in DOMAIN answer.list[1]
         THEN [dict |-> [reply |-> [str |-> answer.list[1].text]]]
    ELSE IF "str" \in DOMAIN answer THEN [dict |-> [reply |-> answer]]
    ELSE [dict |-> [reply |-> [str |-> <<"[", "]">>]]]

unwrap_mcp_result(answer) ==
    IF "dict" \in DOMAIN answer \/ "bool" \in DOMAIN answer THEN answer
    ELSE IF "list" \in DOMAIN answer /\ Len(answer.list) > 0
            /\ "text" \in DOMAIN answer.list[1]
         THEN loads_or_reply(answer.list[1].text)
    ELSE IF "str" \in DOMAIN answer THEN loads_or_reply(answer.str)
    ELSE [dict |-> [reply |-> [str |-> <<"[", "]">>]]]

\* bool(x) of Python
truthy(x) ==
    IF "bool" \in DOMAIN x THEN x.bool
    ELSE IF "str" \in DOMAIN x THEN x.str # <<>>
    ELSE IF "list" \in DOMAIN x THEN x.list # <<>>
    ELSE DOMAIN x.dict # {}

\* is_safe_bool of chat_endpoint
is_safe_bool(unwrapped) ==
    IF "dict" \in DOMAIN unwrapped
    THEN truthy(get(unwrapped.dict, "reply", [bool |-> FALSE]))
    ELSE truthy(unwrapped)

PolicyMessage == <<"Y", "o", "u", "r", " ", "r", "e", "q", "u", "e", "s", "t", " ", "v", "i", "o", "l", "a", "t", "e", "s", " ", "u", "s", "a", "g", "e", " ", "p", "o", "l", "i", "c", "i", "e", "s", ".", " ", "P", "l", "e", "a", "s", "e", " ", "m", "o", "d", "i", "f", "y", " ", "y", "o", "u", "r", " ", "i", "n", "p", "u", "t", ".">>

HTTPException(status_code, detail) == [status_code |-> status_code, detail |-> detail]

ChatResponse(message, pdf_url) == [message |-> message, pdf_url |-> pdf_url]

\* the guardrail check of chat_endpoint: the guard tool is invoked, its answer
\* unwrapped, and a request that is not safe is refused
ChatGuard ==
    /\ pc = "guard"
    /\ \E content \in GuardContents :
        /\ verdicts' = Append(verdicts, llama_guard_check(content))
        /\ \E delivered \in Delivered(llama_guard_check(content)) :
              is_safe' = unwrap_mcp_result(delivered)
    /\ IF ~is_safe_bool(is_safe')
       THEN /\ response' = HTTPException(400, PolicyMessage)
            /\ pc' = "responded"
       ELSE /\ pc' = "tool"
            /\ UNCHANGED response
    /\ UNCHANGED <<agent, llm_content, extracted, version_info_raw, release_date,
                   issues_raw, release_raw, summarized_raw, release_notes_text,
                   pdf_name, result, requests, responses, generated_pdfs, call_vars,
                   parked>>

\* decide_tool picks the tool and chat_endpoint invokes it; the tool checks
\* the query itself before it starts the agent's run
ChatInvokeTool ==
    /\ pc = "tool"
    /\ \E selected_tool_name \in {"generate_release_notes", "generate_github_release_notes"},
          content \in GuardContents :
        /\ verdicts' = Append(verdicts, llama_guard_check(content))
        /\ IF ~llama_guard_check(content)
           THEN /\ result' = [error |-> PolicyMessage]
                /\ pc' = "tool_returned"
                /\ UNCHANGED agent
           ELSE /\ agent' = IF selected_tool_name = "generate_release_notes"
                            THEN "jira" ELSE "github"
                /\ pc' = "extract"
                /\ UNCHANGED result
    /\ UNCHANGED <<llm_content, extracted, version_info_raw, release_date,
                   issues_raw, release_raw, summarized_raw, release_notes_text,
                   pdf_name, requests, responses, generated_pdfs, call_vars,
                   is_safe, response, parked>>

\* chat_endpoint makes its response of the dict the tool returned
ChatRespond ==
    /\ pc \in {"tool_returned", "returned"}
    /\ response' =
          IF "error" \in DOMAIN result THEN ChatResponse(result.error, <<>>)
          ELSE IF "pdf_name" \in DOMAIN result
          THEN IF \E f \in generated_pdfs : f.name = result.pdf_name
               THEN ChatResponse(result.reply, <<"/", "p", "d", "f", "/">> \o result.pdf_name)
               ELSE HTTPException(500, <<"P", "D", "F", " ", "g", "e", "n", "e", "r", "a", "t", "i", "o", "n", " ", "f", "a", "i", "l", "e", "d">>)
          ELSE ChatResponse(result.reply, <<>>)
    /\ pc' = "responded"
    /\ UNCHANGED <<agent, llm_content, extracted, version_info_raw, release_date,
                   issues_raw, release_raw, summarized_raw, release_notes_text,
                   pdf_name, result, requests, responses, generated_pdfs, call_vars,
                   is_safe, verdicts, parked>>

\* the tool's run ended with an exception: ainvoke raises, and chat_endpoint
\* answers with an internal server error
ChatToolRaised ==
    /\ pc = "raised"
    /\ response' = HTTPException(500, <<"I", "n", "t", "e", "r", "n", "a", "l", " ", "s", "e", "r", "v", "e", "r", " ", "e", "r", "r", "o", "r">>)
    /\ pc' = "responded"
    /\ UNCHANGED <<agent, llm_content, extracted, version_info_raw, release_date,
                   issues_raw, release_raw, summarized_raw, release_notes_text,
                   pdf_name, result, requests, responses, generated_pdfs, call_vars,
                   is_safe, verdicts, parked>>

InitChat ==
    /\ agent = "none" /\ pc = "guard" /\ llm_content = <<>> /\ extracted = None
    /\ result = None /\ responses = <<>>
    /\ version_info_raw = <<>> /\ release_date = <<>> /\ issues_raw = <<>>
    /\ release_raw = <<>> /\ summarized_raw = <<>> /\ release_notes_text = <<>>
    /\ pdf_name = <<>> /\ requests = <<>> /\ generated_pdfs = {}
    /\ NoChat /\ parked = None /\ NoCall

\* the steps of chat_endpoint itself
ChatStep == ChatGuard \/ ChatInvokeTool \/ ChatRespond \/ ChatToolRaised

NextChat == ChatStep \/ Next

\* chat_endpoint does not stop halfway: when it can take a step of its own it
\* takes one
SpecChat == InitChat /\ [][NextChat]_vars /\ WF_vars(ChatStep)

\* llama_guard_check returned False for the request
GuardNegative == \E i \in 1..Len(verdicts) : ~verdicts[i]

\* the response tells the policy violation
PolicyViolation ==
    \/ "detail" \in DOMAIN response /\ response.status_code = 400
       /\ response.detail = PolicyMessage
    \/ "message" \in DOMAIN response /\ response.message = PolicyMessage

\* the extraction of the intent, or a later stage, was started
PipelineStarted ==
    \/ pc \in {"extract", "fetch_version", "fetch_issues", "fetch_release",
               "fetch_release_fallback", "classify", "format", "save", "returned", "raised"}
    \/ agent # "none" \/ llm_content # <<>> \/ extracted # None
    \/ requests # <<>> \/ generated_pdfs # {}

\* after a negative verdict no stage is ever started, and a response given is
\* the policy violation
RefusedForGood ==
    GuardNegative =>
        /\ ~PipelineStarted
        /\ pc \in {"responded", "tool_returned"}
        /\ pc = "responded" => PolicyViolation

\* C12: whenever llama_guard_check returns a negative verdict for a request,
\* however the tool transport delivers it, the request ends with the policy
\* violation response, and neither the extraction of the intent nor a later
\* stage is ever started for it.
C12_NegativeVerdictStopsRequest ==
    /\ []RefusedForGood
    /\ GuardNegative ~> (pc = "responded" /\ PolicyViolation)

\* the verdict False came as the text "false" and the request was refused
\* with status 400
C12_Witness ==
    /\ verdicts = <<FALSE>>
    /\ is_safe = [bool |-> FALSE]
    /\ pc = "responded" /\ "detail" \in DOMAIN response /\ response.status_code = 400

(***************************************************************************)
(* Two runs at once.  The run that is stepping has its locals in the       *)
(* variables of the run, the other run's locals are parked; the two share  *)
(* the directory generated_pdfs.  doc.build opens the output file, which   *)
(* empties it, and then writes the document: two steps of the run.         *)
(***************************************************************************)
\* the locals of the run that is stepping
Locals ==
    [agent |-> agent, pc |-> pc, llm_content |-> llm_content, extracted |-> extracted,
     version_info_raw |-> version_info_raw, release_date |-> release_date,
     issues_raw |-> issues_raw, release_raw |-> release_raw,
     summarized_raw |-> summarized_raw, release_notes_text |-> release_notes_text,
     pdf_name |-> pdf_name, result |-> result, requests |-> requests,
     responses |-> responses]

\* the locals of a run of agent a that has not taken a step
FreshLocals(a) ==
    [agent |-> a, pc |-> "extract", llm_content |-> <<>>, extracted |-> None,
     version_info_raw |-> <<>>, release_date |-> <<>>, issues_raw |-> <<>>,
     release_raw |-> <<>>, summarized_raw |-> <<>>, release_notes_text |-> <<>>,
     pdf_name |-> <<>>, result |-> None, requests |-> <<>>, responses |-> <<>>]

\* the scheduler lets the other run step
Switch ==
    /\ parked # None
    /\ parked' = Locals
    /\ agent' = parked.agent /\ pc' = parked.pc /\ llm_content' = parked.llm_content
    /\ extracted' = parked.extracted /\ version_info_raw' = parked.version_info_raw
    /\ release_date' = parked.release_date /\ issues_raw' = parked.issues_raw
    /\ release_raw' = parked.release_raw /\ summarized_raw' = parked.summarized_raw
    /\ release_notes_text' = parked.release_notes_text /\ pdf_name' = parked.pdf_name
    /\ result' = parked.result /\ requests' = parked.requests
    /\ responses' = parked.responses
    /\ UNCHANGED <<generated_pdfs, call_vars, chat_vars>>

\* save_to_pdf up to the opening of the output file: the name is made, the
\* story built, and the file of that name is opened for writing, empty
SaveOpens ==
    /\ pc = "save"
    /\ pdf_name' = IF agent = "jira"
                   THEN jira_pdf_name(extracted.project, extracted.version)
                   ELSE github_pdf_name(extracted.owner, extracted.repo, extracted.version)
    /\ generated_pdfs' = write_file(generated_pdfs, pdf_name', <<>>)
    /\ pc' = "writing"
    /\ UNCHANGED <<agent, llm_content, extracted, version_info_raw, release_date,
                   issues_raw, release_raw, summarized_raw, release_notes_text,
                   result, requests, responses, call_vars, chat_vars, parked>>

\* the document is written into the file and the run returns
SaveWrites ==
    /\ pc = "writing"
    /\ generated_pdfs' = write_file(generated_pdfs, pdf_name, save_to_pdf(release_notes_text))
    /\ result' = IF agent = "jira"
                 THEN [reply |-> <<"R", "e", "l", "e", "a", "s", "e", " ", "n", "o", "t", "e", "s", " ", "g", "e", "n", "e", "r", "a", "t", "e", "d", ".">>, project |-> extracted.project,
                       version |-> extracted.version, pdf_name |-> pdf_name]
                 ELSE [reply |-> <<"G", "i", "t", "H", "u", "b", " ", "r", "e", "l", "e", "a", "s", "e", " ", "n", "o", "t", "e", "s", " ", "g", "e", "n", "e", "r", "a", "t", "e", "d", ".">>, owner |-> extracted.owner,
                       repo |-> extracted.repo, version |-> extracted.version,
                       pdf_name |-> pdf_name]
    /\ pc' = "returned"
    /\ UNCHANGED <<agent, llm_content, extracted, version_info_raw, release_date,
                   issues_raw, release_raw, summarized_raw, release_notes_text,
                   pdf_name, requests, responses, call_vars, chat_vars, parked>>

\* the queries and the upstream answers of the two runs
ConcurrentContents ==
    {json_dumps([project |-> p, version |-> v]) : p \in Projects, v \in {<<"1">>}}
    \cup {json_dumps([project |-> <<"Z", "K">>, version |-> <<"v", "1">>])}
    \cup {json_dumps([owner |-> <<"a">>, repo |-> p, version |-> <<"1">>]) : p \in Repos}

ConcurrentVersions == {Ok(<<>>), Ok(<<[name |-> <<"1">>, releaseDate |-> <<"2", "0", "2", "4", "-", "0", "1", "-", "0", "2">>]>>)}

ConcurrentIssues ==
    {Ok([issues |-> <<[key |-> <<"Z", "-", "1">>, fields |-> [summary |-> <<"F", "i", "x", " ", "i", "t">>, issuetype |-> [name |-> <<"B", "u", "g">>]]]>>]),
     Ok([issues |-> <<[key |-> <<"Z", "-", "2">>, fields |-> [summary |-> <<"A", "d", "d", " ", "*", "*", "x", "*", "*">>, issuetype |-> [name |-> <<"T", "a", "s", "k">>]]]>>]),
     [raised |-> <<"t", "i", "m", "e", "o", "u", "t">>, status_code |-> 0, is_json |-> FALSE, json |-> EmptyObject]}

ConcurrentReleases ==
    {r \in ReleaseResponses(<<"1">>) \cup ReleaseResponses(<<"v", "1">>) :
        r.raised = <<>> /\ r.is_json /\ "name" \in DOMAIN r.json => r.json.body = <<"m", "i", "s", "c">>}

\* the steps are taken with these queries and answers
ConcurrentInputs ==
    /\ llm_content' \in {<<>>} \cup ConcurrentContents
    /\ \A i \in 1..Len(responses') :
          IF requests'[i].endpoint = "project/versions" THEN responses'[i] \in ConcurrentVersions
          ELSE IF requests'[i].endpoint = "search" THEN responses'[i] \in ConcurrentIssues
          ELSE responses'[i] \in ConcurrentReleases

InitTwo ==
    /\ agent \in {"jira", "github"}
    /\ pc = "extract" /\ llm_content = <<>> /\ extracted = None /\ result = None
    /\ version_info_raw = <<>> /\ release_date = <<>> /\ issues_raw = <<>>
    /\ release_raw = <<>> /\ summarized_raw = <<>> /\ release_notes_text = <<>>
    /\ pdf_name = <<>> /\ requests = <<>> /\ responses = <<>>
    /\ parked = FreshLocals(agent)
    /\ generated_pdfs = {}
    /\ NoChat
    /\ NoCall

NextTwo ==
    \/ JiraExtract /\ ConcurrentInputs
    \/ JiraFetchVersionInfo /\ ConcurrentInputs
    \/ JiraFetchIssues /\ ConcurrentInputs
    \/ JiraClassify
    \/ JiraFormat
    \/ GithubExtract /\ ConcurrentInputs
    \/ GithubFetchRelease /\ ConcurrentInputs
    \/ GithubFetchFallback /\ ConcurrentInputs
    \/ GithubClassify
    \/ GithubFormat
    \/ SaveOpens
    \/ SaveWrites
    \/ Switch

SpecTwo == InitTwo /\ [][NextTwo]_vars

\* the other run has made its file name
OtherNamed == parked.pc \in {"writing", "returned"} /\ parked.pdf_name # <<>>

\* this run has made its file name
ThisNamed == pc \in {"writing", "returned"} /\ pdf_name # <<>>

\* the two runs work on the same intent
SameIntent == agent = parked.agent /\ extracted # None /\ extracted = parked.extracted

\* the repository with every "/" turned into "_"
Slashless(repo) == [i \in 1..Len(repo) |-> IF repo[i] = "/" THEN "_" ELSE repo[i]]

\* the name the intent alone gives
NameOfIntent ==
    IF agent = "jira"
    THEN extracted.project \o <<"_", "v">> \o extracted.version \o <<"_", "r", "e", "l", "e", "a", "s", "e", "_", "n", "o", "t", "e", "s", ".", "p", "d", "f">>
    ELSE extracted.owner \o <<"_">> \o Slashless(extracted.repo) \o <<"_", "v">> \o extracted.version
         \o <<"_", "r", "e", "l", "e", "a", "s", "e", "_", "n", "o", "t", "e", "s", ".", "p", "d", "f">>

\* C14: two runs on the same intent use the same file name, the name the
\* intent alone gives, whatever the upstream answered to either run.
C14_SameIntentSameName ==
    (SameIntent /\ ThisNamed /\ OtherNamed)
        => (pdf_name = parked.pdf_name /\ pdf_name = NameOfIntent)

\* two runs on one intent, both with their file name, the upstream having
\* answered them differently
C14_Witness ==
    /\ SameIntent /\ ThisNamed /\ OtherNamed
    /\ responses # parked.responses
    /\ release_notes_text # parked.release_notes_text

\* both runs have returned with a file name
BothSucceeded ==
    /\ Succeeded
    /\ parked.pc = "returned" /\ "pdf_name" \in DOMAIN parked.result

\* the upstream answered the two runs alike
SameUpstream == responses = parked.responses

\* the document one run alone writes for this run's intent and answers
SingleRunStory ==
    IF agent = "jira"
    THEN save_to_pdf(jira_format_release_notes(
            extracted.project, extracted.version,
            get(json_loads(fetch_jira_version_info(extracted.project, extracted.version,
                                                   responses[1])),
                "release_date", <<"U", "n", "k", "n", "o", "w", "n">>),
            classify_and_summarize_issues(
                fetch_jira_issues(extracted.project, extracted.version, responses[2]))))
    ELSE save_to_pdf(github_format_release_notes(
            extracted.owner, extracted.repo, extracted.version,
            classify_and_summarize_release(
                github_release_text(extracted.owner, extracted.repo, extracted.version,
                                    responses[Len(responses)]))))

====
